---- MODULE Spec2Model ----
(***************************************************************************)
(* A model of the execution control plane of execd: the file-tail          *)
(* streamer, the command executor and its registry, the kernel context     *)
(* registry with the Jupyter execute path, and the SSE event bridge.       *)
(* Each part is a state machine over its own variables; a specification    *)
(* of one part leaves the variables of the other parts unchanged.          *)
(***************************************************************************)
EXTENDS Integers, Sequences, FiniteSets, TLC

VARIABLES
    \* ---- file-tail streamer (tailStdPipe / readFromPos) ----
    tFile,      \* bytes of the log file written so far
    tLastPos,   \* tailStdPipe's lastPos
    tEmitted,   \* the lines handed to onExecute, in order
    tDone,      \* the done channel has been closed
    tExited,    \* tailStdPipe has returned
    \* ---- command executor (runCommand / runBackgroundCommand) ----
    cMode,            \* per execute: "none", "fg" or "bg"
    cPc,              \* per execute: position of the Execute call
    gPc,              \* per execute: position of the detached goroutine
    cRet,             \* per execute: what Execute returned
    cProc,            \* per execute: the child process
    cExit,            \* per execute: the child's exit code
    cReaped,    \* per execute: who has collected the child's exit status
    cCtxDone,         \* per execute: Execute's context is done
    cOut,             \* per execute and stream: bytes of the log file
    cTail,            \* per execute and stream: the tailer goroutine
    cDone,            \* per execute: the done channel has been closed
    cEvents,          \* per execute: the hook calls made, in order
    commandClientMap, \* Controller.commandClientMap
    \* ---- kernel contexts (context.go, runJupyter, ExecuteCodeStream) ----
    jupyterClientMap,               \* Controller.jupyterClientMap
    defaultLanguageJupyterSessions, \* Controller.defaultLanguageJupyterSessions
    kRemote,    \* the sessions that exist on the Jupyter server
    kNext,      \* the next session id the Jupyter server hands out
    kMu,        \* per session: the holder of jupyterKernel.mu, 0 when free
    kConn,      \* per session: the client's WebSocket is connected
    kOps,       \* operations started so far
    kMsgs,      \* kernel messages received so far
    tOp,        \* per caller: the operation it runs
    tPc,        \* per caller: its position in that operation
    tLang,      \* per caller: the language of the request
    tCtx,       \* per caller: request.Context, 0 when empty
    tSess,      \* per caller: the session it works on, 0 when none
    tTodo,      \* per caller: contexts DeleteLanguageContext has yet to delete
    tSeen,      \* per caller: the seen map of DeleteLanguageContext
    tRet,       \* per caller: what the operation returned
    tEvents,    \* per caller: the hook calls of its execute, in order
    xChan,      \* per caller: the results channel of its execute
    xClosed,    \* per caller: the results channel has been closed
    xCount,     \* per caller: result.ExecutionCount > 0
    xErr,       \* per caller: result.Error != nil
    xDone,      \* per caller: executeDone
    xIdle,      \* per caller: the goroutine started by status idle
    xCtxDone,   \* per caller: Execute's context is done
    xPanic,     \* a handler has sent on a closed channel
    xIntr,      \* per caller: its execute has called InterruptKernel
    hPc,            \* HTTP handler (RunCommand / RunCode): its position
    hReqDone,       \* c.ctx.Request.Context() is done
    hCtxDone,       \* the handler's ctx, derived from the request context
    hExecCtxDone,   \* the ctx Execute builds from context.Background()
    hExec,          \* the executor under Execute: its phase
    hW,             \* per writer goroutine: its position in writeSingleEvent
    hPing,          \* the keepalive goroutine
    chunkWriter,    \* holder of c.chunkWriter, "free" when unlocked
    hWriting,       \* who is inside a Write on c.ctx.Writer
    hFrames,        \* what has been written to the response, in order
    pLast,          \* the last status / output read of a client, and its result
    qLast,          \* the last get_context / list_contexts call, and its result
    \* ---- interrupt of a command session (Interrupt / killPid) ----
    cKid,       \* per execute: a descendant of the child in its process group
    cTerm,      \* per execute: a SIGTERM is pending on the child
    cKill,      \* per execute: a SIGKILL is pending on the child
    iPc,        \* per session: where the interrupt call on it stands
    iWait,      \* per session: killPid's goroutine around process.Wait
    iRet,       \* per session: what the interrupt call returned
    iSaw,       \* per session: what the interrupt found in the command map
    iHit,       \* per session: the state of the child when SIGTERM was sent
    iCalls,     \* interrupt calls made so far
    \* ---- the controller's readers-writer lock (c.mu) and the maps ----
    cMu,        \* c.mu: its writer (0 when none) and the set of its readers
    lPath,      \* per goroutine: the lock calls and map accesses still ahead
    lAcc,       \* per goroutine: the map access it is in the middle of
    lOps,       \* paths started so far
    \* ---- the signal relay of the command executors ----
    sPc,        \* per command: where runCommand / runBackgroundCommand stands
    sNotify,    \* the commands whose signals channel the daemon's signals go to
    sChan,      \* per command: its signals channel (capacity 1)
    sSeen,      \* per command: the signals the daemon got while it was running
    sFwd,       \* per command: the signals sent on to its process group
    sCount,     \* signals the daemon has received so far
    rPc,        \* per execute: the receiveMessages goroutine of its connection
    \* ---- kernel lookup (searchKernel) ----
    ksSpecs,    \* the kernelspecs of the Jupyter server, in the order it lists them
    ksCalls     \* the lookups made on them: target language and outcome

tailVars == <<tFile, tLastPos, tEmitted, tDone, tExited>>

cmdVars == <<cMode, cPc, gPc, cRet, cProc, cExit, cReaped, cCtxDone, cOut,
             cTail, cDone, cEvents, commandClientMap>>

regVars == <<jupyterClientMap, defaultLanguageJupyterSessions, kRemote, kNext,
             kMu, kConn, kOps, kMsgs>>

callVars == <<tOp, tPc, tLang, tCtx, tSess, tTodo, tSeen, tRet, tEvents>>

execVars == <<xChan, xClosed, xCount, xErr, xDone, xIdle, xCtxDone, xPanic,
             xIntr, rPc>>

kerVars == <<regVars, callVars, execVars>>

sseVars == <<hPc, hReqDone, hCtxDone, hExecCtxDone, hExec, hW, hPing,
             chunkWriter, hWriting, hFrames>>

pollVars == <<pLast>>

ctxVars == <<qLast>>

intrVars == <<cKid, cTerm, cKill, iPc, iWait, iRet, iSaw, iHit, iCalls>>

lockVars == <<cMu, lPath, lAcc, lOps>>

sigVars == <<sPc, sNotify, sChan, sSeen, sFwd, sCount>>

searchVars == <<ksSpecs, ksCalls>>

vars == <<tailVars, cmdVars, kerVars, sseVars, pollVars, ctxVars, intrVars,
          lockVars, sigVars, searchVars>>

(***************************************************************************)
(* Bounds                                                                  *)
(***************************************************************************)
MaxFile == 4
MaxCmd == 2
MaxOut == 2
MaxCallers == 2
MaxSess == 2
MaxOps == 3
MaxMsgs == 2
MaxFrames == 3
MaxIntrCmd == 1
MaxIntr == 2
MaxLockers == 2
MaxLockOps == 2
MaxExecMsgs == 3
MaxSigs == 2
MaxReaderMsgs == 11
MaxTries == 2
MaxSpecs == 3
MaxSearch == 2

(***************************************************************************)
(* File-tail streamer                                                      *)
(***************************************************************************)
LF == "\n"
CR == "\r"
Bytes == {"a", "b", LF, CR}

IsTerminator(b) == b = LF \/ b = CR

\* The byte loop of readFromPos: i is currentPos, buf the bytes.Buffer,
\* out the lines already handed to onExecute.
RECURSIVE ReadLoop(_, _, _, _, _)
ReadLoop(file, i, buf, out, flushIncomplete) ==
    IF i >= Len(file)
    THEN \* io.EOF
         IF flushIncomplete /\ Len(buf) > 0
         THEN [out |-> Append(out, buf), buf |-> <<>>, currentPos |-> i]
         ELSE [out |-> out, buf |-> buf, currentPos |-> i]
    ELSE LET b == file[i + 1] IN
         IF IsTerminator(b)
         THEN IF Len(buf) > 0
              THEN ReadLoop(file, i + 1, <<>>, Append(out, buf), flushIncomplete)
              ELSE ReadLoop(file, i + 1, <<>>, out, flushIncomplete)
         ELSE ReadLoop(file, i + 1, Append(buf, b), out, flushIncomplete)

\* A variant of readFromPos that returns the offset reached instead of the
\* offset at which the unterminated segment starts.
ReadFromPosNoRewind(locked, file, startPos, flushIncomplete) ==
    IF locked
    THEN [out |-> <<>>, pos |-> -1]
    ELSE LET r == ReadLoop(file, startPos, <<>>, <<>>, flushIncomplete)
         IN  [out |-> r.out, pos |-> r.currentPos]

\* A variant of readFromPos that flushes the unterminated segment on every
\* read.
ReadFromPosFlushing(locked, file, startPos, flushIncomplete) ==
    IF locked
    THEN [out |-> <<>>, pos |-> -1]
    ELSE LET r == ReadLoop(file, startPos, <<>>, <<>>, TRUE)
         IN  [out |-> r.out,
              pos |-> IF startPos > Len(file) THEN startPos ELSE Len(file)]

\* readFromPos(mutex, filepath, startPos, onExecute, flushIncomplete):
\* the lines handed to onExecute and the returned offset.
ReadFromPos(locked, file, startPos, flushIncomplete) ==
    IF locked
    THEN [out |-> <<>>, pos |-> -1]
    ELSE LET r      == ReadLoop(file, startPos, <<>>, <<>>, flushIncomplete)
             endPos == IF startPos > Len(file) THEN startPos ELSE Len(file)
         IN  IF ~flushIncomplete /\ Len(r.buf) > 0
             THEN [out |-> r.out, pos |-> r.currentPos - Len(r.buf)]
             ELSE [out |-> r.out, pos |-> endPos]

\* The tail actions leave the other parts alone.
TailFrame == UNCHANGED <<cmdVars, kerVars, sseVars, pollVars, ctxVars, intrVars,
    lockVars, sigVars, searchVars>>

TailInit ==
    /\ tFile = <<>>
    /\ tLastPos = 0
    /\ tEmitted = <<>>
    /\ tDone = FALSE
    /\ tExited = FALSE

\* The child appends one byte to the log file.
TailAppend(b) ==
    /\ Len(tFile) < MaxFile
    /\ tFile' = Append(tFile, b)
    /\ UNCHANGED <<tLastPos, tEmitted, tDone, tExited>>
    /\ TailFrame

\* case <-ticker.C: the periodic read.
TailTick ==
    /\ ~tExited
    /\ LET r == ReadFromPos(FALSE, tFile, tLastPos, FALSE) IN
        /\ tEmitted' = tEmitted \o r.out
        /\ tLastPos' = r.pos
    /\ UNCHANGED <<tFile, tDone, tExited>>
    /\ TailFrame

\* runCommand closes the done channel after cmd.Wait.
TailCloseDone ==
    /\ ~tDone
    /\ tDone' = TRUE
    /\ UNCHANGED <<tFile, tLastPos, tEmitted, tExited>>
    /\ TailFrame

\* case <-done: the final read with flushIncomplete, then return.
TailFlush ==
    /\ tDone
    /\ ~tExited
    /\ LET r == ReadFromPos(FALSE, tFile, tLastPos, TRUE) IN
        tEmitted' = tEmitted \o r.out
    /\ tExited' = TRUE
    /\ UNCHANGED <<tFile, tLastPos, tDone>>
    /\ TailFrame

TailNext ==
    \/ \E b \in Bytes : TailAppend(b)
    \/ TailTick
    \/ TailCloseDone
    \/ TailFlush

(***************************************************************************)
(* Command executor and command registry                                   *)
(***************************************************************************)
CmdIds == 1 .. MaxCmd
Streams == {"stdout", "stderr"}
CmdBytes == {"a", LF}
Nil == "nil"

\* A Go pointer field: unset, or set to a value.
None == <<>>
Some(v) == <<v>>

\* One hook call: its name and what it carries.
Event(type, arg) == [type |-> type, arg |-> arg]

EventsOfLines(type, lines) == [i \in 1 .. Len(lines) |-> Event(type, lines[i])]

\* &commandKernel{pid, running, isBackground}: exitCode and finishedAt unset.
NewCommandKernel(pid, running, isBackground) ==
    [pid |-> pid, running |-> running, exitCode |-> None, finishedAt |-> None,
     isBackground |-> isBackground]

\* storeCommandKernel, under c.mu.Lock.
StoreCommandKernel(map, session, kernel) ==
    [s \in DOMAIN map \cup {session} |-> IF s = session THEN kernel ELSE map[s]]

\* markCommandFinished, under c.mu.Lock.
MarkCommandFinished(map, session, exitCode) ==
    IF session \notin DOMAIN map
    THEN map
    ELSE [map EXCEPT ![session].exitCode = Some(exitCode),
                     ![session].running = FALSE,
                     ![session].finishedAt = Some("now")]

\* commandSnapshot + GetCommandStatus, under c.mu.RLock: what a reader sees.
CommandStatusOf(map, session) ==
    IF session \notin DOMAIN map
    THEN [found |-> FALSE, running |-> FALSE, exitCode |-> None, finishedAt |-> None]
    ELSE [found |-> TRUE,
          running |-> map[session].running,
          exitCode |-> map[session].exitCode,
          finishedAt |-> map[session].finishedAt]

\* The bytes the children of the executes in S have written so far.
RECURSIVE BytesWrittenBy(_)
BytesWrittenBy(S) ==
    IF S = {} THEN 0
    ELSE LET e == CHOOSE x \in S : TRUE
         IN  Len(cOut[e]["stdout"]) + Len(cOut[e]["stderr"])
               + BytesWrittenBy(S \ {e})

BytesWritten == BytesWrittenBy(CmdIds)

CmdInit ==
    /\ cMode = [e \in CmdIds |-> "none"]
    /\ cPc = [e \in CmdIds |-> "idle"]
    /\ gPc = [e \in CmdIds |-> "none"]
    /\ cRet = [e \in CmdIds |-> "pending"]
    /\ cProc = [e \in CmdIds |-> "none"]
    /\ cExit = [e \in CmdIds |-> None]
    /\ cReaped = [e \in CmdIds |-> "no"]
    /\ cCtxDone = [e \in CmdIds |-> FALSE]
    /\ cOut = [e \in CmdIds |-> [s \in Streams |-> <<>>]]
    /\ cTail = [e \in CmdIds |-> [s \in Streams |-> [alive |-> FALSE, lastPos |-> 0]]]
    /\ cDone = [e \in CmdIds |-> FALSE]
    /\ cEvents = [e \in CmdIds |-> <<>>]
    /\ commandClientMap = <<>>

CmdFrame == UNCHANGED <<tailVars, kerVars, sseVars, pollVars, ctxVars, intrVars,
    lockVars, sigVars, searchVars>>

Emit(e, evs) == cEvents' = [cEvents EXCEPT ![e] = @ \o evs]

\* Execute returns: the deferred cancel() ends the context.
Return(e, ret) ==
    /\ cPc' = [cPc EXCEPT ![e] = "returned"]
    /\ cRet' = [cRet EXCEPT ![e] = ret]
    /\ cCtxDone' = [cCtxDone EXCEPT ![e] = TRUE]

\* runCommand lines 39-71: the log files are opened and both tailers started.
FgBegin(e) ==
    /\ cPc[e] = "idle"
    /\ cMode' = [cMode EXCEPT ![e] = "fg"]
    /\ cPc' = [cPc EXCEPT ![e] = "tailing"]
    /\ cTail' = [cTail EXCEPT ![e] = [s \in Streams |-> [alive |-> TRUE, lastPos |-> 0]]]
    /\ UNCHANGED <<cReaped, gPc, cRet, cProc, cExit, cCtxDone, cOut, cDone, cEvents,
                   commandClientMap>>
    /\ CmdFrame

\* runCommand lines 46-49: stdLogDescriptor fails.
FgOpenFail(e) ==
    /\ cPc[e] = "idle"
    /\ cMode' = [cMode EXCEPT ![e] = "fg"]
    /\ Return(e, "error")
    /\ UNCHANGED <<cReaped, gPc, cProc, cExit, cOut, cTail, cDone, cEvents,
                   commandClientMap>>
    /\ CmdFrame

\* A start whose failure is reported without on_init.
FgStartNoInit(e, ok) ==
    /\ cPc[e] = "tailing"
    /\ IF ok
       THEN /\ ~cCtxDone[e]
            /\ cProc' = [cProc EXCEPT ![e] = "running"]
            /\ cPc' = [cPc EXCEPT ![e] = "started"]
            /\ UNCHANGED <<cRet, cCtxDone, cEvents>>
       ELSE /\ Emit(e, <<Event("error", <<"CommandExecError", "start">>)>>)
            /\ Return(e, "nil")
            /\ UNCHANGED cProc
    /\ UNCHANGED <<cReaped, cMode, gPc, cExit, cOut, cTail, cDone, commandClientMap>>
    /\ CmdFrame

\* runCommand lines 77-83: cmd.Start; on failure on_init, on_error, return nil.
FgStart(e, ok) ==
    /\ cPc[e] = "tailing"
    /\ IF ok
       THEN /\ ~cCtxDone[e]
            /\ cProc' = [cProc EXCEPT ![e] = "running"]
            /\ cPc' = [cPc EXCEPT ![e] = "started"]
            /\ UNCHANGED <<cRet, cCtxDone, cEvents>>
       ELSE /\ Emit(e, <<Event("init", e),
                         Event("error", <<"CommandExecError", "start">>)>>)
            /\ Return(e, "nil")
            /\ UNCHANGED cProc
    /\ UNCHANGED <<cReaped, cMode, gPc, cExit, cOut, cTail, cDone, commandClientMap>>
    /\ CmdFrame

\* runCommand lines 85-94: storeCommandKernel(session, running=true).
FgStore(e) ==
    /\ cPc[e] = "started"
    /\ commandClientMap' =
         StoreCommandKernel(commandClientMap, e, NewCommandKernel(e, TRUE, FALSE))
    /\ cPc' = [cPc EXCEPT ![e] = "stored"]
    /\ UNCHANGED <<cReaped, cMode, gPc, cRet, cProc, cExit, cCtxDone, cOut, cTail, cDone,
                   cEvents>>
    /\ CmdFrame

\* runCommand line 95: on_init.
FgInit(e) ==
    /\ cPc[e] = "stored"
    /\ Emit(e, <<Event("init", e)>>)
    /\ cPc' = [cPc EXCEPT ![e] = "waiting"]
    /\ UNCHANGED <<cReaped, cMode, gPc, cRet, cProc, cExit, cCtxDone, cOut, cTail, cDone,
                   commandClientMap>>
    /\ CmdFrame

\* The child writes one byte to its stdout or stderr (a background child
\* writes both to the combined file, kept under "stdout").
ChildWrite(e, s, b) ==
    /\ cProc[e] = "running"
    /\ cMode[e] = "bg" => s = "stdout"
    /\ BytesWritten < MaxOut
    /\ cOut' = [cOut EXCEPT ![e][s] = Append(@, b)]
    /\ UNCHANGED <<cReaped, cMode, cPc, gPc, cRet, cProc, cExit, cCtxDone, cTail, cDone,
                   cEvents, commandClientMap>>
    /\ CmdFrame

\* The child exits by itself.
ChildExit(e, code) ==
    /\ cProc[e] = "running"
    /\ cProc' = [cProc EXCEPT ![e] = "exited"]
    /\ cExit' = [cExit EXCEPT ![e] = Some(code)]
    /\ UNCHANGED <<cReaped, cMode, cPc, gPc, cRet, cCtxDone, cOut, cTail, cDone, cEvents,
                   commandClientMap>>
    /\ CmdFrame

\* Execute lines 84-85: the deadline of context.WithTimeout expires.
CtxExpire(e) ==
    /\ cMode[e] = "fg"
    /\ cPc[e] \notin {"idle", "returned"}
    /\ ~cCtxDone[e]
    /\ cCtxDone' = [cCtxDone EXCEPT ![e] = TRUE]
    /\ UNCHANGED <<cReaped, cMode, cPc, gPc, cRet, cProc, cExit, cOut, cTail, cDone,
                   cEvents, commandClientMap>>
    /\ CmdFrame

\* exec.CommandContext (runCommand line 55) kills the child once the
\* context is done; a background child runs under context.Background().
KillByCtx(e) ==
    /\ cMode[e] = "fg"
    /\ cCtxDone[e]
    /\ cProc[e] = "running"
    /\ cProc' = [cProc EXCEPT ![e] = "exited"]
    /\ cExit' = [cExit EXCEPT ![e] = Some(-1)]
    /\ UNCHANGED <<cReaped, cMode, cPc, gPc, cRet, cCtxDone, cOut, cTail, cDone, cEvents,
                   commandClientMap>>
    /\ CmdFrame

\* strconv.Itoa on the exit codes that occur.
Itoa(n) ==
    CASE n = 0 -> "0"
      [] n = 1 -> "1"
      [] n = 3 -> "3"
      [] n = 255 -> "255"
      [] n = -1 -> "-1"

\* A wait whose failure with ECHILD is taken for a clean exit.
CmdWaitLost(exit, reaped) ==
    IF reaped = "intr"
    THEN [err |-> FALSE, code |-> 0, evalue |-> "0"]
    ELSE [err |-> exit # Some(0), code |-> exit[1], evalue |-> Itoa(exit[1])]

\* What cmd.Wait returns to the executor, and what lines 117-132 of
\* runCommand (207-214 of runBackgroundCommand) make of it. When another
\* waiter has collected the exit status the wait fails with ECHILD, which is
\* not an ExitError: the message is the evalue and the code is 1.
CmdWait(exit, reaped) ==
    IF reaped = "intr"
    THEN [err |-> TRUE, code |-> 1, evalue |-> "wait: no child processes"]
    ELSE [err |-> exit # Some(0), code |-> exit[1], evalue |-> Itoa(exit[1])]

\* The executor's wait collects the exit status unless it is already taken.
Reap(reaped, who) == IF reaped = "no" THEN who ELSE reaped

\* runCommand lines 114-115: cmd.Wait returns, close(done).
FgWait(e) ==
    /\ cPc[e] = "waiting"
    /\ cProc[e] = "exited"
    /\ cReaped' = [cReaped EXCEPT ![e] = Reap(@, "exec")]
    /\ cDone' = [cDone EXCEPT ![e] = TRUE]
    /\ cPc' = [cPc EXCEPT ![e] = "draining"]
    /\ UNCHANGED <<cMode, gPc, cRet, cProc, cExit, cCtxDone, cOut, cTail,
                   cEvents, commandClientMap>>
    /\ CmdFrame

\* tailStdPipe, case <-ticker.C, of the tailer of stream s.
TailerTick(e, s) ==
    /\ cTail[e][s].alive
    /\ LET r == ReadFromPos(FALSE, cOut[e][s], cTail[e][s].lastPos, FALSE) IN
        /\ r.out # <<>> \/ r.pos # cTail[e][s].lastPos
        /\ Emit(e, EventsOfLines(s, r.out))
        /\ cTail' = [cTail EXCEPT ![e][s].lastPos = r.pos]
    /\ UNCHANGED <<cReaped, cMode, cPc, gPc, cRet, cProc, cExit, cCtxDone, cOut, cDone,
                   commandClientMap>>
    /\ CmdFrame

\* tailStdPipe, case <-done, of the tailer of stream s: final read, return.
TailerFlush(e, s) ==
    /\ cTail[e][s].alive
    /\ cDone[e]
    /\ LET r == ReadFromPos(FALSE, cOut[e][s], cTail[e][s].lastPos, TRUE) IN
        Emit(e, EventsOfLines(s, r.out))
    /\ cTail' = [cTail EXCEPT ![e][s].alive = FALSE]
    /\ UNCHANGED <<cReaped, cMode, cPc, gPc, cRet, cProc, cExit, cCtxDone, cOut, cDone,
                   commandClientMap>>
    /\ CmdFrame

\* runCommand lines 116-139 and 146: wg.Wait returns; on a failed wait
\* on_error, otherwise markCommandFinished(session, 0).
FgDrained(e) ==
    /\ cPc[e] = "draining"
    /\ \A s \in Streams : ~cTail[e][s].alive
    /\ IF CmdWait(cExit[e], cReaped[e]).err
       THEN /\ Emit(e, <<Event("error", <<"CommandExecError",
                                         CmdWait(cExit[e], cReaped[e]).evalue>>)>>)
            /\ cPc' = [cPc EXCEPT ![e] = "failed"]
            /\ UNCHANGED commandClientMap
       ELSE /\ commandClientMap' = MarkCommandFinished(commandClientMap, e, 0)
            /\ cPc' = [cPc EXCEPT ![e] = "finished"]
            /\ UNCHANGED cEvents
    /\ UNCHANGED <<cReaped, cMode, gPc, cRet, cProc, cExit, cCtxDone, cOut, cTail, cDone>>
    /\ CmdFrame

\* runCommand lines 141-143: markCommandFinished(session, eCode), return nil.
FgMarkFailed(e) ==
    /\ cPc[e] = "failed"
    /\ commandClientMap' =
         MarkCommandFinished(commandClientMap, e,
                             CmdWait(cExit[e], cReaped[e]).code)
    /\ Return(e, "nil")
    /\ UNCHANGED <<cReaped, cMode, gPc, cProc, cExit, cOut, cTail, cDone, cEvents>>
    /\ CmdFrame

\* runCommand lines 147-148: on_complete, return nil.
FgComplete(e) ==
    /\ cPc[e] = "finished"
    /\ Emit(e, <<Event("complete", Nil)>>)
    /\ Return(e, "nil")
    /\ UNCHANGED <<cReaped, cMode, gPc, cProc, cExit, cOut, cTail, cDone,
                   commandClientMap>>
    /\ CmdFrame

\* runBackgroundCommand lines 153-159: on_init, then the combined output
\* file is opened; when that fails the error is returned.
BgBegin(e, ok) ==
    /\ cPc[e] = "idle"
    /\ cMode' = [cMode EXCEPT ![e] = "bg"]
    /\ Emit(e, <<Event("init", e)>>)
    /\ IF ok
       THEN /\ cPc' = [cPc EXCEPT ![e] = "opened"]
            /\ UNCHANGED <<cRet, cCtxDone>>
       ELSE Return(e, "error")
    /\ UNCHANGED <<cReaped, gPc, cProc, cExit, cOut, cTail, cDone, commandClientMap>>
    /\ CmdFrame

\* runBackgroundCommand line 181: safego.Go starts the detached goroutine.
BgSpawn(e) ==
    /\ cPc[e] = "opened"
    /\ gPc' = [gPc EXCEPT ![e] = "spawned"]
    /\ cPc' = [cPc EXCEPT ![e] = "spawned"]
    /\ UNCHANGED <<cReaped, cMode, cRet, cProc, cExit, cCtxDone, cOut, cTail, cDone,
                   cEvents, commandClientMap>>
    /\ CmdFrame

\* runBackgroundCommand lines 221-222: on_complete, return nil.
BgComplete(e) ==
    /\ cPc[e] = "spawned"
    /\ Emit(e, <<Event("complete", Nil)>>)
    /\ Return(e, "nil")
    /\ UNCHANGED <<cReaped, cMode, gPc, cProc, cExit, cOut, cTail, cDone,
                   commandClientMap>>
    /\ CmdFrame

\* The goroutine, line 184: cmd.Start.
BgGoStart(e, ok) ==
    /\ gPc[e] = "spawned"
    /\ IF ok
       THEN /\ cProc' = [cProc EXCEPT ![e] = "running"]
            /\ gPc' = [gPc EXCEPT ![e] = "started"]
       ELSE /\ gPc' = [gPc EXCEPT ![e] = "start failed"]
            /\ UNCHANGED cProc
    /\ UNCHANGED <<cReaped, cMode, cPc, cRet, cExit, cCtxDone, cOut, cTail, cDone,
                   cEvents, commandClientMap>>
    /\ CmdFrame

\* The goroutine, lines 195-198: kernel.running = false, storeCommandKernel.
BgGoStoreFailed(e) ==
    /\ gPc[e] = "start failed"
    /\ commandClientMap' =
         StoreCommandKernel(commandClientMap, e, NewCommandKernel(-1, FALSE, TRUE))
    /\ gPc' = [gPc EXCEPT ![e] = "failure stored"]
    /\ UNCHANGED <<cReaped, cMode, cPc, cRet, cProc, cExit, cCtxDone, cOut, cTail, cDone,
                   cEvents>>
    /\ CmdFrame

\* The goroutine, lines 199-200: markCommandFinished(session, 255), return.
BgGoMarkFailed(e) ==
    /\ gPc[e] = "failure stored"
    /\ commandClientMap' = MarkCommandFinished(commandClientMap, e, 255)
    /\ gPc' = [gPc EXCEPT ![e] = "done"]
    /\ UNCHANGED <<cReaped, cMode, cPc, cRet, cProc, cExit, cCtxDone, cOut, cTail, cDone,
                   cEvents>>
    /\ CmdFrame

\* The goroutine, lines 203-205: storeCommandKernel(session, running=true).
BgGoStore(e) ==
    /\ gPc[e] = "started"
    /\ commandClientMap' =
         StoreCommandKernel(commandClientMap, e, NewCommandKernel(e, TRUE, TRUE))
    /\ gPc' = [gPc EXCEPT ![e] = "waiting"]
    /\ UNCHANGED <<cReaped, cMode, cPc, cRet, cProc, cExit, cCtxDone, cOut, cTail, cDone,
                   cEvents>>
    /\ CmdFrame

\* The goroutine, lines 207-218: cmd.Wait returns, markCommandFinished.
BgGoMark(e) ==
    /\ gPc[e] = "waiting"
    /\ cProc[e] = "exited"
    /\ cReaped' = [cReaped EXCEPT ![e] = Reap(@, "exec")]
    /\ commandClientMap' =
         MarkCommandFinished(commandClientMap, e,
                             CmdWait(cExit[e], cReaped[e]).code)
    /\ gPc' = [gPc EXCEPT ![e] = "done"]
    /\ UNCHANGED <<cMode, cPc, cRet, cProc, cExit, cCtxDone, cOut, cTail, cDone,
                   cEvents>>
    /\ CmdFrame

CmdNext ==
    \/ \E e \in CmdIds : FgBegin(e)
    \/ \E e \in CmdIds : FgOpenFail(e)
    \/ \E e \in CmdIds, ok \in BOOLEAN : FgStart(e, ok)
    \/ \E e \in CmdIds : FgStore(e)
    \/ \E e \in CmdIds : FgInit(e)
    \/ \E e \in CmdIds, s \in Streams, b \in CmdBytes : ChildWrite(e, s, b)
    \/ \E e \in CmdIds, code \in {0, 3} : ChildExit(e, code)
    \/ \E e \in CmdIds : CtxExpire(e)
    \/ \E e \in CmdIds : KillByCtx(e)
    \/ \E e \in CmdIds : FgWait(e)
    \/ \E e \in CmdIds, s \in Streams : TailerTick(e, s)
    \/ \E e \in CmdIds, s \in Streams : TailerFlush(e, s)
    \/ \E e \in CmdIds : FgDrained(e)
    \/ \E e \in CmdIds : FgMarkFailed(e)
    \/ \E e \in CmdIds : FgComplete(e)
    \/ \E e \in CmdIds, ok \in BOOLEAN : BgBegin(e, ok)
    \/ \E e \in CmdIds : BgSpawn(e)
    \/ \E e \in CmdIds : BgComplete(e)
    \/ \E e \in CmdIds, ok \in BOOLEAN : BgGoStart(e, ok)
    \/ \E e \in CmdIds : BgGoStoreFailed(e)
    \/ \E e \in CmdIds : BgGoMarkFailed(e)
    \/ \E e \in CmdIds : BgGoStore(e)
    \/ \E e \in CmdIds : BgGoMark(e)

(***************************************************************************)
(* Kernel contexts: the registry, default provisioning, the Jupyter        *)
(* execute path                                                            *)
(***************************************************************************)
Callers == 1 .. MaxCallers
SessIds == 1 .. MaxSess
Langs == {"python"}
ResultChanCap == 10

KerFrame == UNCHANGED <<tailVars, cmdVars, sseVars, pollVars, ctxVars, intrVars,
    lockVars, sigVars, searchVars>>

Restrict(f, S) == [x \in S |-> f[x]]

\* &jupyterKernel{kernelID, client, language}
NewJupyterKernel(id, language) == [kernelID |-> id, language |-> language]

\* storeJupyterKernel, and line 171 of createDefaultLanguageContext.
StoreJupyterKernel(map, session, kernel) ==
    [s \in DOMAIN map \cup {session} |-> IF s = session THEN kernel ELSE map[s]]

\* createDefaultLanguageContext line 170.
StoreDefault(defaults, language, session) ==
    [l \in DOMAIN defaults \cup {language} |->
        IF l = language THEN session ELSE defaults[l]]

\* A cleanup that empties the kernel map.
DeleteFromKernelMapAll(map, session) == <<>>

\* deleteSessionAndCleanup line 122.
DeleteFromKernelMap(map, session) == Restrict(map, DOMAIN map \ {session})

\* A cleanup that leaves the language-default entries alone.
DeleteFromDefaultsNothing(defaults, session) == defaults

\* deleteSessionAndCleanup lines 123-127.
DeleteFromDefaults(defaults, session) ==
    Restrict(defaults, {l \in DOMAIN defaults : defaults[l] # session})

\* getJupyterKernel(session) != nil, under c.mu.RLock.
HasJupyterKernel(map, session) == session \in DOMAIN map

\* listLanguageContexts: the ids of the kernel map entries of the language,
\* then the language default when there is one.
RECURSIVE SeqOfSet(_)
SeqOfSet(S) ==
    IF S = {} THEN <<>>
    ELSE LET x == CHOOSE y \in S : \A z \in S : y <= z
         IN  <<x>> \o SeqOfSet(S \ {x})

\* A listing that ignores the language.
ListEveryContext(map, defaults, language) == SeqOfSet(DOMAIN map)

ListLanguageContexts(map, defaults, language) ==
    SeqOfSet({s \in DOMAIN map : map[s].language = language})
      \o (IF language \in DOMAIN defaults THEN <<defaults[language]>> ELSE <<>>)

\* One value of the results channel (execute.ExecutionResult).
Notify(count, data, status, time, error, stream) ==
    [count |-> count, data |-> data, status |-> status, time |-> time,
     error |-> error, stream |-> stream]

NotifyResult == Notify(1, TRUE, "", FALSE, FALSE, "")
NotifyStream(name) == Notify(0, FALSE, "", FALSE, FALSE, name)
NotifyError == Notify(0, FALSE, "error", FALSE, TRUE, "")
NotifyTime == Notify(0, FALSE, "", TRUE, FALSE, "")

\* runJupyterCode lines 191-217: the hook calls made for one channel value.
HooksOf(n) ==
    (IF n.count > 0 \/ n.data THEN <<Event("result", n.count)>> ELSE <<>>)
    \o (IF n.status # "" THEN <<Event("status", n.status)>> ELSE <<>>)
    \o (IF n.time THEN <<Event("complete", Nil)>> ELSE <<>>)
    \o (IF n.error THEN <<Event("error", <<"KernelError", "">>)>> ELSE <<>>)
    \o (IF n.stream # "" THEN <<Event(n.stream, "text")>> ELSE <<>>)

\* A TryLock that always succeeds.
TryLockAlways(mu, session) == TRUE

\* kernel.mu.TryLock() of runJupyterCode line 166.
TryLock(mu, session) == mu[session] = 0

KerInit ==
    /\ jupyterClientMap = <<>>
    /\ defaultLanguageJupyterSessions = <<>>
    /\ kRemote = {}
    /\ kNext = 1
    /\ kMu = [s \in SessIds |-> 0]
    /\ kConn = [s \in SessIds |-> FALSE]
    /\ kOps = 0
    /\ kMsgs = 0
    /\ tOp = [t \in Callers |-> "none"]
    /\ tPc = [t \in Callers |-> "idle"]
    /\ tLang = [t \in Callers |-> "python"]
    /\ tCtx = [t \in Callers |-> 0]
    /\ tSess = [t \in Callers |-> 0]
    /\ tTodo = [t \in Callers |-> {}]
    /\ tSeen = [t \in Callers |-> {}]
    /\ tRet = [t \in Callers |-> "pending"]
    /\ tEvents = [t \in Callers |-> <<>>]
    /\ xChan = [t \in Callers |-> <<>>]
    /\ xClosed = [t \in Callers |-> FALSE]
    /\ xCount = [t \in Callers |-> FALSE]
    /\ xErr = [t \in Callers |-> FALSE]
    /\ xDone = [t \in Callers |-> FALSE]
    /\ xIdle = [t \in Callers |-> "none"]
    /\ xCtxDone = [t \in Callers |-> FALSE]
    /\ xPanic = FALSE
    /\ xIntr = [t \in Callers |-> FALSE]
    /\ rPc = [t \in Callers |-> "none"]

\* A caller starts an operation: the state of its previous one is dropped.
Start(t, op, language, ctx, session) ==
    /\ tPc[t] \in {"idle", "done"}
    /\ kOps < MaxOps
    /\ kOps' = kOps + 1
    /\ tOp' = [tOp EXCEPT ![t] = op]
    /\ tLang' = [tLang EXCEPT ![t] = language]
    /\ tCtx' = [tCtx EXCEPT ![t] = ctx]
    /\ tSess' = [tSess EXCEPT ![t] = session]
    /\ tEvents' = [tEvents EXCEPT ![t] = <<>>]
    /\ xChan' = [xChan EXCEPT ![t] = <<>>]
    /\ xClosed' = [xClosed EXCEPT ![t] = FALSE]
    /\ xCount' = [xCount EXCEPT ![t] = FALSE]
    /\ xErr' = [xErr EXCEPT ![t] = FALSE]
    /\ xDone' = [xDone EXCEPT ![t] = FALSE]
    /\ xIdle' = [xIdle EXCEPT ![t] = "none"]
    /\ xCtxDone' = [xCtxDone EXCEPT ![t] = FALSE]
    /\ xIntr' = [xIntr EXCEPT ![t] = FALSE]
    /\ rPc' = [rPc EXCEPT ![t] = "none"]
    /\ UNCHANGED xPanic

\* The operation of caller t returns ret.
Finish(t, ret) ==
    /\ tPc' = [tPc EXCEPT ![t] = "done"]
    /\ tRet' = [tRet EXCEPT ![t] = ret]

Goto(t, pc) ==
    /\ tPc' = [tPc EXCEPT ![t] = pc]
    /\ tRet' = [tRet EXCEPT ![t] = "pending"]

\* createContext lines 181-215: a session is created on the Jupyter server.
\* The new session gets the id kNext.
RemoteCreate ==
    /\ kNext <= MaxSess
    /\ kRemote' = kRemote \cup {kNext}
    /\ kNext' = kNext + 1

\* CreateContext lines 41-50: createContext under retry.OnError.
CreateBegin(t, language, ok) ==
    /\ Start(t, "create", language, 0, IF ok THEN kNext ELSE 0)
    /\ IF ok
       THEN /\ RemoteCreate
            /\ Goto(t, "create store")
       ELSE /\ Finish(t, "error")
            /\ UNCHANGED <<kRemote, kNext>>
    /\ UNCHANGED <<jupyterClientMap, defaultLanguageJupyterSessions, kMu, kConn,
                   kMsgs, tTodo, tSeen>>
    /\ KerFrame

\* CreateContext lines 52-64: storeJupyterKernel, return session.ID.
CreateStore(t) ==
    /\ tPc[t] = "create store"
    /\ jupyterClientMap' =
         StoreJupyterKernel(jupyterClientMap, tSess[t],
                            NewJupyterKernel(tSess[t], tLang[t]))
    /\ Finish(t, "nil")
    /\ UNCHANGED <<defaultLanguageJupyterSessions, kRemote, kNext, kMu, kConn,
                   kOps, kMsgs, tOp, tLang, tCtx, tSess, tTodo, tSeen, tEvents, execVars>>
    /\ KerFrame

\* DeleteContext -> deleteSessionAndCleanup lines 111-113.
DeleteBegin(t, session) ==
    /\ Start(t, "delete", tLang[t], 0, session)
    /\ IF HasJupyterKernel(jupyterClientMap, session)
       THEN Goto(t, "delete remote")
       ELSE Finish(t, "ContextNotFound")
    /\ UNCHANGED <<jupyterClientMap, defaultLanguageJupyterSessions, kRemote,
                   kNext, kMu, kConn, kMsgs, tTodo, tSeen>>
    /\ KerFrame

\* deleteSessionAndCleanup lines 115-117: jupyterClient().DeleteSession.
DeleteRemote(t, ok) ==
    /\ tPc[t] = "delete remote"
    /\ IF ok
       THEN /\ tSess[t] \in kRemote
            /\ kRemote' = kRemote \ {tSess[t]}
            /\ Goto(t, "delete cleanup")
       ELSE /\ Finish(t, "error")
            /\ UNCHANGED kRemote
    /\ UNCHANGED <<jupyterClientMap, defaultLanguageJupyterSessions, kNext, kMu,
                   kConn, kOps, kMsgs, tOp, tLang, tCtx, tSess, tTodo, tSeen, tEvents,
                   execVars>>
    /\ KerFrame

\* deleteSessionAndCleanup lines 119-128, under c.mu.Lock; then the caller
\* returns, or DeleteLanguageContext goes on with its loop.
DeleteCleanup(t) ==
    /\ tPc[t] = "delete cleanup"
    /\ jupyterClientMap' = DeleteFromKernelMap(jupyterClientMap, tSess[t])
    /\ defaultLanguageJupyterSessions' =
         DeleteFromDefaults(defaultLanguageJupyterSessions, tSess[t])
    /\ IF tOp[t] = "delete language" /\ tTodo[t] # {}
       THEN Goto(t, "delete loop")
       ELSE Finish(t, "nil")
    /\ UNCHANGED <<kRemote, kNext, kMu, kConn, kOps, kMsgs, tOp, tLang, tCtx,
                   tSess, tTodo, tSeen, tEvents, execVars>>
    /\ KerFrame

\* DeleteLanguageContext lines 91-96: listLanguageContexts under c.mu.RLock.
DeleteLanguageBegin(t, language) ==
    /\ Start(t, "delete language", language, 0, 0)
    /\ LET contexts == ListLanguageContexts(jupyterClientMap,
                           defaultLanguageJupyterSessions, language)
           ids == {contexts[i] : i \in 1 .. Len(contexts)}
       IN  /\ tTodo' = [tTodo EXCEPT ![t] = ids]
           /\ tSeen' = [tSeen EXCEPT ![t] = {}]
           /\ IF ids = {} THEN Finish(t, "nil") ELSE Goto(t, "delete loop")
    /\ UNCHANGED <<jupyterClientMap, defaultLanguageJupyterSessions, kRemote,
                   kNext, kMu, kConn, kMsgs>>
    /\ KerFrame

\* DeleteLanguageContext lines 97-105: the next context not yet seen, and
\* lines 111-113 of deleteSessionAndCleanup for it.
DeleteLanguageNext(t, session) ==
    /\ tPc[t] = "delete loop"
    /\ session \in tTodo[t]
    /\ tTodo' = [tTodo EXCEPT ![t] = @ \ {session}]
    /\ tSeen' = [tSeen EXCEPT ![t] = @ \cup {session}]
    /\ tSess' = [tSess EXCEPT ![t] = session]
    /\ IF HasJupyterKernel(jupyterClientMap, session)
       THEN Goto(t, "delete remote")
       ELSE Finish(t, "error")
    /\ UNCHANGED <<regVars, tOp, tLang, tCtx, tEvents, execVars>>
    /\ KerFrame

\* runJupyter lines 135-142: with an empty request.Context the default map
\* is looked up (without the lock) to decide whether to provision.
ExecBegin(t, language, ctx) ==
    /\ Start(t, "execute", language, ctx, 0)
    /\ IF ctx = 0 /\ language \notin DOMAIN defaultLanguageJupyterSessions
       THEN Goto(t, "provision")
       ELSE Goto(t, "target")
    /\ UNCHANGED <<jupyterClientMap, defaultLanguageJupyterSessions, kRemote,
                   kNext, kMu, kConn, kMsgs, tTodo, tSeen>>
    /\ KerFrame

\* createDefaultLanguageContext lines 153-165: createContext under retry.
ExecProvision(t, ok) ==
    /\ tPc[t] = "provision"
    /\ IF ok
       THEN /\ RemoteCreate
            /\ tSess' = [tSess EXCEPT ![t] = kNext]
            /\ Goto(t, "provision store")
       ELSE /\ Finish(t, "error")
            /\ UNCHANGED <<kRemote, kNext, tSess>>
    /\ UNCHANGED <<jupyterClientMap, defaultLanguageJupyterSessions, kMu, kConn,
                   kOps, kMsgs, tOp, tLang, tCtx, tTodo, tSeen, tEvents, execVars>>
    /\ KerFrame

\* createDefaultLanguageContext lines 167-176, under c.mu.Lock.
ExecProvisionStore(t) ==
    /\ tPc[t] = "provision store"
    /\ defaultLanguageJupyterSessions' =
         StoreDefault(defaultLanguageJupyterSessions, tLang[t], tSess[t])
    /\ jupyterClientMap' =
         StoreJupyterKernel(jupyterClientMap, tSess[t],
                            NewJupyterKernel(tSess[t], tLang[t]))
    /\ Goto(t, "target")
    /\ UNCHANGED <<kRemote, kNext, kMu, kConn, kOps, kMsgs, tOp, tLang, tCtx,
                   tSess, tTodo, tSeen, tEvents, execVars>>
    /\ KerFrame

\* runJupyter lines 144-149: the session the request runs against ("" is 0).
TargetSession(defaults, language, ctx) ==
    IF ctx = 0
    THEN IF language \in DOMAIN defaults THEN defaults[language] ELSE 0
    ELSE ctx

\* runJupyter lines 144-159 and runJupyterCode lines 166-169: the kernel is
\* looked up, on_init is called, then kernel.mu.TryLock.
ExecTarget(t) ==
    /\ tPc[t] = "target"
    /\ LET target == TargetSession(defaultLanguageJupyterSessions, tLang[t], tCtx[t]) IN
        IF ~HasJupyterKernel(jupyterClientMap, target)
        THEN /\ Finish(t, "ContextNotFound")
             /\ UNCHANGED <<kMu, tSess, tEvents>>
        ELSE /\ tEvents' = [tEvents EXCEPT ![t] = <<Event("init", target)>>]
             /\ tSess' = [tSess EXCEPT ![t] = target]
             /\ IF TryLock(kMu, target)
                THEN /\ kMu' = [kMu EXCEPT ![target] = t]
                     /\ Goto(t, "connect")
                ELSE /\ Finish(t, "session is busy")
                     /\ UNCHANGED kMu
    /\ UNCHANGED <<jupyterClientMap, defaultLanguageJupyterSessions, kRemote,
                   kNext, kConn, kOps, kMsgs, tOp, tLang, tCtx, tTodo, tSeen, execVars>>
    /\ KerFrame

\* A return that leaves kernel.mu locked.
LeaveKeepLock(t, ret) ==
    /\ kConn' = [kConn EXCEPT ![tSess[t]] = FALSE]
    /\ UNCHANGED kMu
    /\ xCtxDone' = [xCtxDone EXCEPT ![t] = TRUE]
    /\ rPc' = [rPc EXCEPT ![t] = IF @ = "reading" THEN "exited" ELSE @]
    /\ Finish(t, ret)

\* runJupyterCode returns: DisconnectFromKernel and kernel.mu.Unlock run as
\* deferred calls, and Execute's deferred cancel() ends the context.  The
\* closed connection makes ReadJSON fail, which ends receiveMessages unless
\* it is inside a handler, blocked on its send.
Leave(t, ret) ==
    /\ kConn' = [kConn EXCEPT ![tSess[t]] = FALSE]
    /\ kMu' = [kMu EXCEPT ![tSess[t]] = 0]
    /\ xCtxDone' = [xCtxDone EXCEPT ![t] = TRUE]
    /\ rPc' = [rPc EXCEPT ![t] = IF @ = "reading" THEN "exited" ELSE @]
    /\ Finish(t, ret)

\* runJupyterCode lines 171-182: ConnectToKernel, then ExecuteCodeStream
\* installs the handlers and sends the execute_request.
ExecConnect(t, outcome) ==
    /\ tPc[t] = "connect"
    /\ IF outcome = "ok"
       THEN /\ kConn' = [kConn EXCEPT ![tSess[t]] = TRUE]
            /\ rPc' = [rPc EXCEPT ![t] = "reading"]
            /\ Goto(t, "streaming")
            /\ UNCHANGED <<kMu, xCtxDone>>
       ELSE Leave(t, "error")
    /\ UNCHANGED <<jupyterClientMap, defaultLanguageJupyterSessions, kRemote,
                   kNext, kOps, kMsgs, tOp, tLang, tCtx, tSess, tTodo, tSeen, tEvents,
                   xChan, xClosed, xCount, xErr, xDone, xIdle, xPanic,
                   xIntr>>
    /\ KerFrame

KernelMessages ==
    {"stream", "execute_result", "error", "execute_reply", "status busy",
     "status idle"}

\* What the handler of a message sends on the results channel, if anything.
Sent(m) ==
    CASE m = "stream" -> <<NotifyStream("stdout")>>
      [] m = "execute_result" -> <<NotifyResult>>
      [] m = "error" -> <<NotifyError>>
      [] OTHER -> <<>>

\* The position of receiveMessages while the handler of m waits in its
\* send on the results channel.
BlockedOn(m) ==
    CASE m = "stream" -> "send stream"
      [] m = "execute_result" -> "send execute_result"
      [] OTHER -> "send error"

BlockedPcs == {"send stream", "send execute_result", "send error"}

\* The message whose handler waits at position pc.
PendingOf(pc) ==
    CASE pc = "send stream" -> "stream"
      [] pc = "send execute_result" -> "execute_result"
      [] OTHER -> "error"

\* receiveMessages -> handleMessage: the handlers ExecuteCodeStream installed
\* (lines 174-281) run for a message read from the WebSocket; at most
\* bound messages are read in a run.  A handler that sends finds the
\* channel closed (panic), with room (the value is buffered) or full (the
\* goroutine blocks in the send).
KernelMsg(t, m, bound) ==
    /\ tPc[t] = "streaming"
    /\ kConn[tSess[t]]
    /\ ~xPanic
    /\ rPc[t] = "reading"
    /\ kMsgs < bound
    /\ kMsgs' = kMsgs + 1
    /\ IF Sent(m) # <<>> /\ xClosed[t]
       THEN /\ xPanic' = TRUE
            /\ UNCHANGED <<xChan, rPc>>
       ELSE IF Sent(m) # <<>> /\ Len(xChan[t]) >= ResultChanCap
       THEN /\ rPc' = [rPc EXCEPT ![t] = BlockedOn(m)]
            /\ UNCHANGED <<xChan, xPanic>>
       ELSE /\ xChan' = [xChan EXCEPT ![t] = @ \o Sent(m)]
            /\ UNCHANGED <<xPanic, rPc>>
    /\ xCount' = [xCount EXCEPT ![t] = @ \/ m \in {"execute_reply", "execute_result"}]
    /\ xErr' = [xErr EXCEPT ![t] = @ \/ m = "error"]
    /\ IF m = "status idle" /\ ~xDone[t]
       THEN /\ xDone' = [xDone EXCEPT ![t] = TRUE]
            /\ xIdle' = [xIdle EXCEPT ![t] = "send"]
       ELSE UNCHANGED <<xDone, xIdle>>
    /\ UNCHANGED <<jupyterClientMap, defaultLanguageJupyterSessions, kRemote,
                   kNext, kMu, kConn, kOps, callVars, xClosed, xCtxDone,
                   xIntr>>
    /\ KerFrame

\* ExecuteCodeStream lines 259-269: the goroutine sends the execution time.
IdleSend(t) ==
    /\ xIdle[t] = "send"
    /\ Len(xChan[t]) < ResultChanCap
    /\ xChan' = [xChan EXCEPT ![t] = Append(@, NotifyTime)]
    /\ xIdle' = [xIdle EXCEPT ![t] = "wait"]
    /\ UNCHANGED <<regVars, callVars, xClosed, xCount, xErr, xDone, xCtxDone, xPanic,
                   xIntr, rPc>>
    /\ KerFrame

\* A goroutine that closes the channel without waiting for a count or an error.
IdleCloseEarly(t) ==
    /\ xIdle[t] = "wait"
    /\ xClosed' = [xClosed EXCEPT ![t] = TRUE]
    /\ xIdle' = [xIdle EXCEPT ![t] = "done"]
    /\ UNCHANGED <<regVars, callVars, xChan, xCount, xErr, xDone, xCtxDone, xPanic,
                   xIntr, rPc>>
    /\ KerFrame

\* ExecuteCodeStream lines 271-276: once an execution count or an error is
\* recorded the goroutine closes the channel.
IdleClose(t) ==
    /\ xIdle[t] = "wait"
    /\ xCount[t] \/ xErr[t]
    /\ xClosed' = [xClosed EXCEPT ![t] = TRUE]
    /\ xIdle' = [xIdle EXCEPT ![t] = "done"]
    /\ UNCHANGED <<regVars, callVars, xChan, xCount, xErr, xDone, xCtxDone, xPanic,
                   xIntr, rPc>>
    /\ KerFrame

\* runJupyterCode lines 186-217: one value is received and its hooks called.
ExecConsume(t) ==
    /\ tPc[t] = "streaming"
    /\ xChan[t] # <<>>
    /\ tEvents' = [tEvents EXCEPT ![t] = @ \o HooksOf(Head(xChan[t]))]
    /\ xChan' = [xChan EXCEPT ![t] = Tail(@)]
    /\ UNCHANGED <<regVars, tOp, tPc, tLang, tCtx, tSess, tTodo, tSeen, tRet, xClosed,
                   xCount, xErr, xDone, xIdle, xCtxDone, xPanic,
                   xIntr, rPc>>
    /\ KerFrame

\* runJupyterCode lines 187-189: the closed channel yields nil, return nil.
ExecEnd(t) ==
    /\ tPc[t] = "streaming"
    /\ xChan[t] = <<>>
    /\ xClosed[t]
    /\ Leave(t, "nil")
    /\ UNCHANGED <<jupyterClientMap, defaultLanguageJupyterSessions, kRemote,
                   kNext, kOps, kMsgs, tOp, tLang, tCtx, tSess, tTodo, tSeen, tEvents,
                   xChan, xClosed, xCount, xErr, xDone, xIdle, xPanic,
                   xIntr>>
    /\ KerFrame

\* A handler blocked in its send goes on when the channel has room (or
\* panics when it has been closed); receiveMessages then reads on, or ends
\* when the connection has been closed meanwhile.
ReaderSend(t) ==
    /\ rPc[t] \in BlockedPcs
    /\ ~xPanic
    /\ xClosed[t] \/ Len(xChan[t]) < ResultChanCap
    /\ IF xClosed[t]
       THEN /\ xPanic' = TRUE
            /\ UNCHANGED <<xChan, rPc>>
       ELSE /\ xChan' = [xChan EXCEPT ![t] = @ \o Sent(PendingOf(rPc[t]))]
            /\ rPc' = [rPc EXCEPT ![t] =
                          IF tPc[t] = "streaming" THEN "reading" ELSE "exited"]
            /\ UNCHANGED xPanic
    /\ UNCHANGED <<regVars, callVars, xClosed, xCount, xErr, xDone, xIdle,
                   xCtxDone, xIntr>>
    /\ KerFrame

\* A cancellation that emits no event.
NoCancelledError == <<>>

\* runJupyterCode lines 226-229: the hook call of the ctx.Done branch.
CancelledError == <<Event("error", <<"ContextCancelled", "Interrupt kernel">>)>>

\* Execute lines 84-85 and runJupyterCode lines 219-230: the deadline of
\* context.WithTimeout expires and the select takes ctx.Done (nothing else
\* reads the context): InterruptKernel, on_error, return the error.
ExecCancel(t) ==
    /\ tPc[t] = "streaming"
    /\ ~xCtxDone[t]
    /\ tEvents' = [tEvents EXCEPT ![t] = @ \o CancelledError]
    /\ Leave(t, "error")
    /\ UNCHANGED <<jupyterClientMap, defaultLanguageJupyterSessions, kRemote,
                   kNext, kOps, kMsgs, tOp, tLang, tCtx, tSess, tTodo, tSeen,
                   xChan, xClosed, xCount, xErr, xDone, xIdle, xPanic>>
    /\ xIntr' = [xIntr EXCEPT ![t] = TRUE]
    /\ KerFrame

KerNext ==
    \/ \E t \in Callers, l \in Langs, ok \in BOOLEAN : CreateBegin(t, l, ok)
    \/ \E t \in Callers : CreateStore(t)
    \/ \E t \in Callers, s \in SessIds : DeleteBegin(t, s)
    \/ \E t \in Callers, ok \in BOOLEAN : DeleteRemote(t, ok)
    \/ \E t \in Callers : DeleteCleanup(t)
    \/ \E t \in Callers, l \in Langs : DeleteLanguageBegin(t, l)
    \/ \E t \in Callers, s \in SessIds : DeleteLanguageNext(t, s)
    \/ \E t \in Callers, l \in Langs, ctx \in {0} \cup SessIds : ExecBegin(t, l, ctx)
    \/ \E t \in Callers, ok \in BOOLEAN : ExecProvision(t, ok)
    \/ \E t \in Callers : ExecProvisionStore(t)
    \/ \E t \in Callers : ExecTarget(t)
    \/ \E t \in Callers, o \in {"ok", "connect failed", "send failed"} : ExecConnect(t, o)
    \/ \E t \in Callers, m \in KernelMessages : KernelMsg(t, m, MaxMsgs)
    \/ \E t \in Callers : IdleSend(t)
    \/ \E t \in Callers : IdleClose(t)
    \/ \E t \in Callers : ExecConsume(t)
    \/ \E t \in Callers : ExecEnd(t)
    \/ \E t \in Callers : ExecCancel(t)

\* One client running executes without a context id, one after the other,
\* with up to MaxExecMsgs kernel messages.
ExecNext ==
    \/ \E l \in Langs : ExecBegin(1, l, 0)
    \/ \E ok \in BOOLEAN : ExecProvision(1, ok)
    \/ ExecProvisionStore(1)
    \/ ExecTarget(1)
    \/ \E o \in {"ok", "connect failed", "send failed"} : ExecConnect(1, o)
    \/ \E m \in KernelMessages : KernelMsg(1, m, MaxExecMsgs)
    \/ IdleSend(1)
    \/ IdleClose(1)
    \/ ExecConsume(1)
    \/ ExecEnd(1)
    \/ ExecCancel(1)

\* Where a create stands that is in attempt n of retry.OnError.
TryPc(n) ==
    CASE n = 1 -> "create try 1"
      [] n = 2 -> "create try 2"
      [] n = 3 -> "create try 3"
      [] OTHER -> "create try 4"

AttemptOutcomes ==
    {"no kernel spec", "create failed", "list failed", "kernel not found", "ok"}

\* CreateContext lines 35-41: the call enters retry.OnError.
RetryBegin(t, language) ==
    /\ Start(t, "create", language, 0, 0)
    /\ Goto(t, TryPc(1))
    /\ UNCHANGED <<jupyterClientMap, defaultLanguageJupyterSessions, kRemote,
                   kNext, kMu, kConn, kMsgs, tTodo, tSeen>>
    /\ KerFrame

\* One run of createContext (lines 180-216) under retry.OnError: searchKernel,
\* CreateSession, ListKernels and the search of the session's kernel.  Every
\* error is retried, with a whole new run, until the steps of the backoff
\* are used up; the last error is then returned.
RetryAttempt(t, outcome) ==
    \E n \in 1 .. MaxTries :
        /\ tPc[t] = TryPc(n)
        /\ IF outcome \in {"list failed", "kernel not found", "ok"}
           THEN RemoteCreate
           ELSE UNCHANGED <<kRemote, kNext>>
        /\ IF outcome = "ok"
           THEN /\ tSess' = [tSess EXCEPT ![t] = kNext]
                /\ Goto(t, "create store")
           ELSE /\ UNCHANGED tSess
                /\ IF n < MaxTries THEN Goto(t, TryPc(n + 1))
                                   ELSE Finish(t, "error")
        /\ UNCHANGED <<jupyterClientMap, defaultLanguageJupyterSessions, kMu,
                       kConn, kOps, kMsgs, tOp, tLang, tCtx, tTodo, tSeen,
                       tEvents, execVars>>
        /\ KerFrame

\* Clients creating contexts, each attempt with its own outcome.
RetryNext ==
    \/ \E t \in Callers, l \in Langs : RetryBegin(t, l)
    \/ \E t \in Callers, o \in AttemptOutcomes : RetryAttempt(t, o)
    \/ \E t \in Callers : CreateStore(t)

\* One client running executes of code that prints in a loop: the kernel
\* sends up to MaxReaderMsgs stream messages, the request has a timeout.
ReaderNext ==
    \/ \E l \in Langs : ExecBegin(1, l, 0)
    \/ \E ok \in BOOLEAN : ExecProvision(1, ok)
    \/ ExecProvisionStore(1)
    \/ ExecTarget(1)
    \/ \E o \in {"ok", "connect failed", "send failed"} : ExecConnect(1, o)
    \/ KernelMsg(1, "stream", MaxReaderMsgs)
    \/ ReaderSend(1)
    \/ ExecConsume(1)
    \/ ExecCancel(1)

(***************************************************************************)
(* HTTP handler and SSE writer of one connection                           *)
(***************************************************************************)
Writers == {"hook", "tailer", "ping"}

SseFrame == UNCHANGED <<tailVars, cmdVars, kerVars, pollVars, ctxVars, intrVars,
    lockVars, sigVars, searchVars>>

SseInit ==
    /\ hPc = "idle"
    /\ hReqDone = FALSE
    /\ hCtxDone = FALSE
    /\ hExecCtxDone = FALSE
    /\ hExec = "none"
    /\ hW = [w \in Writers |-> [pc |-> "idle", frame |-> ""]]
    /\ hPing = "none"
    /\ chunkWriter = "free"
    /\ hWriting = {}
    /\ hFrames = <<>>

\* writeSingleEvent lines 436-445: the frame is dropped when the request
\* context is done, otherwise the writer goes on to c.chunkWriter.Lock().
WriteSingleEvent(w, frame) ==
    /\ hW[w].pc = "idle"
    /\ Len(hFrames) < MaxFrames
    /\ hW' = IF hReqDone THEN hW
             ELSE [hW EXCEPT ![w] = [pc |-> "lock", frame |-> frame]]

\* RunCommand lines 51-59 / RunCode lines 111-118: ctx is derived from the
\* request context and handed to the hooks only, the SSE headers are set,
\* Execute is called and builds its own context from context.Background().
HandlerBegin ==
    /\ hPc = "idle"
    /\ hPc' = "execute"
    /\ hExec' = "start"
    /\ UNCHANGED <<hReqDone, hCtxDone, hExecCtxDone, hW, hPing, chunkWriter,
                   hWriting, hFrames>>
    /\ SseFrame

\* The client goes away: the request context and the contexts derived from
\* it are done.
ClientDisconnect ==
    /\ hPc \in {"execute", "respond", "responding", "grace"}
    /\ ~hReqDone
    /\ hReqDone' = TRUE
    /\ hCtxDone' = TRUE
    /\ UNCHANGED <<hPc, hExecCtxDone, hExec, hW, hPing, chunkWriter, hWriting,
                   hFrames>>
    /\ SseFrame

\* OnExecuteInit: the init frame, then safego.Go(ping).
HookInit ==
    /\ hPc = "execute"
    /\ hExec = "start"
    /\ WriteSingleEvent("hook", "init")
    /\ hExec' = "running"
    /\ hPing' = "running"
    /\ UNCHANGED <<hPc, hReqDone, hCtxDone, hExecCtxDone, chunkWriter,
                   hWriting, hFrames>>
    /\ SseFrame

\* OnExecuteStdout / OnExecuteStderr, called by a tailer goroutine.
HookOutput ==
    /\ hPc = "execute"
    /\ hExec = "running"
    /\ WriteSingleEvent("tailer", "stdout")
    /\ UNCHANGED <<hPc, hReqDone, hCtxDone, hExecCtxDone, hExec, hPing,
                   chunkWriter, hWriting, hFrames>>
    /\ SseFrame

\* OnExecuteComplete / OnExecuteError, called by the executor once the
\* tailers have drained.
HookTerminal(frame) ==
    /\ hPc = "execute"
    /\ hExec = "running"
    /\ hW["tailer"].pc = "idle"
    /\ WriteSingleEvent("hook", frame)
    /\ hExec' = "finished"
    /\ UNCHANGED <<hPc, hReqDone, hCtxDone, hExecCtxDone, hPing, chunkWriter,
                   hWriting, hFrames>>
    /\ SseFrame

\* writeSingleEvent lines 447 and 454-455: the lock is taken and the Write of
\* the frame begins.
WriteLock(w) ==
    /\ hW[w].pc = "lock"
    /\ chunkWriter = "free"
    /\ chunkWriter' = w
    /\ hWriting' = hWriting \cup {w}
    /\ hW' = [hW EXCEPT ![w].pc = "write"]
    /\ UNCHANGED <<hPc, hReqDone, hCtxDone, hExecCtxDone, hExec, hPing, hFrames>>
    /\ SseFrame

\* writeSingleEvent lines 448-453: the Write is over, the deferred Flush and
\* Unlock run.
WriteUnlock(w) ==
    /\ hW[w].pc = "write"
    /\ chunkWriter' = "free"
    /\ hWriting' = hWriting \ {w}
    /\ hFrames' = Append(hFrames, hW[w].frame)
    /\ hW' = [hW EXCEPT ![w] = [pc |-> "idle", frame |-> ""]]
    /\ UNCHANGED <<hPc, hReqDone, hCtxDone, hExecCtxDone, hExec, hPing>>
    /\ SseFrame

\* ping lines 472-482: wait.Until calls the function until ctx is done.
PingTick ==
    /\ hPing = "running"
    /\ ~hCtxDone
    /\ WriteSingleEvent("ping", "ping")
    /\ UNCHANGED <<hPc, hReqDone, hCtxDone, hExecCtxDone, hExec, hPing,
                   chunkWriter, hWriting, hFrames>>
    /\ SseFrame

PingStop ==
    /\ hPing = "running"
    /\ hCtxDone
    /\ hW["ping"].pc = "idle"
    /\ hPing' = "stopped"
    /\ UNCHANGED <<hPc, hReqDone, hCtxDone, hExecCtxDone, hExec, hW,
                   chunkWriter, hWriting, hFrames>>
    /\ SseFrame

\* Execute returns (its deferred cancel() ends its context): with an error
\* before any hook, with an error after on_init (session is busy, connect
\* failure), or after the terminating hook.
ExecuteReturn(err) ==
    /\ hPc = "execute"
    /\ hW["hook"].pc = "idle"
    /\ hW["tailer"].pc = "idle"
    /\ \/ hExec \in {"start", "running"} /\ err
       \/ hExec = "finished"
    /\ hExecCtxDone' = TRUE
    /\ hExec' = "returned"
    /\ hPc' = IF err THEN "respond" ELSE "grace"
    /\ UNCHANGED <<hReqDone, hCtxDone, hW, hPing, chunkWriter, hWriting, hFrames>>
    /\ SseFrame

\* RunCommand lines 61-66 -> RespondError -> c.ctx.JSON: the body is written
\* to c.ctx.Writer without c.chunkWriter.
RespondBegin ==
    /\ hPc = "respond"
    /\ hPc' = "responding"
    /\ hWriting' = hWriting \cup {"handler"}
    /\ UNCHANGED <<hReqDone, hCtxDone, hExecCtxDone, hExec, hW, hPing,
                   chunkWriter, hFrames>>
    /\ SseFrame

\* The body is written; the handler returns and its deferred cancel() runs.
RespondEnd ==
    /\ hPc = "responding"
    /\ hWriting' = hWriting \ {"handler"}
    /\ hFrames' = Append(hFrames, "error body")
    /\ hPc' = "returned"
    /\ hCtxDone' = TRUE
    /\ UNCHANGED <<hReqDone, hExecCtxDone, hExec, hW, hPing, chunkWriter>>
    /\ SseFrame

\* RunCommand line 69: the grace sleep is over, the handler returns.
GraceEnd ==
    /\ hPc = "grace"
    /\ hPc' = "returned"
    /\ hCtxDone' = TRUE
    /\ UNCHANGED <<hReqDone, hExecCtxDone, hExec, hW, hPing, chunkWriter,
                   hWriting, hFrames>>
    /\ SseFrame

SseNext ==
    \/ HandlerBegin
    \/ ClientDisconnect
    \/ HookInit
    \/ HookOutput
    \/ \E f \in {"execution_complete", "error"} : HookTerminal(f)
    \/ \E w \in Writers : WriteLock(w)
    \/ \E w \in Writers : WriteUnlock(w)
    \/ PingTick
    \/ PingStop
    \/ \E err \in BOOLEAN : ExecuteReturn(err)
    \/ RespondBegin
    \/ RespondEnd
    \/ GraceEnd

(***************************************************************************)
(* Readers of the command registry: status and background output           *)
(***************************************************************************)
Cursors == -1 .. MaxOut

\* A seek that ignores the cursor and reads the file from its start.
SeekFileFromStart(file, cursor) ==
    IF cursor < 0
    THEN [err |-> "error seek file", data |-> <<>>, cursor |-> -1]
    ELSE [err |-> "nil", data |-> file, cursor |-> Len(file)]

\* SeekBackgroundCommandOutput lines 92-109: file.Seek(cursor, 0) fails on a
\* negative offset; io.ReadAll reads to the end of the file; file.Seek(0, 1)
\* gives the offset reached (the cursor itself when it lies beyond the end).
SeekFile(file, cursor) ==
    IF cursor < 0
    THEN [err |-> "error seek file", data |-> <<>>, cursor |-> -1]
    ELSE [err |-> "nil",
          data |-> SubSeq(file, cursor + 1, Len(file)),
          cursor |-> IF cursor > Len(file) THEN cursor ELSE Len(file)]

\* SeekBackgroundCommandOutput lines 76-90: the snapshot, the background
\* check, then the combined output file (kept under "stdout") is read.
SeekBackgroundCommandOutput(map, out, session, cursor) ==
    IF session \notin DOMAIN map
    THEN [err |-> "command not found", data |-> <<>>, cursor |-> -1]
    ELSE IF ~map[session].isBackground
    THEN [err |-> "not running in background", data |-> <<>>, cursor |-> -1]
    ELSE SeekFile(out[session]["stdout"], cursor)

\* What a read leaves with the client: the call, its result, and where the
\* command was when the read was made.
ReadRecord(op, session, arg, err, data, cursor, st) ==
    [op |-> op, session |-> session, arg |-> arg, err |-> err, data |-> data,
     cursor |-> cursor, st |-> st,
     flen |-> Len(cOut[session]["stdout"]),
     returned |-> cPc[session] = "returned" /\ cRet[session] = "nil"]

PollInit ==
    pLast = [op |-> "none", session |-> 0, arg |-> 0, err |-> "nil",
             data |-> <<>>, cursor |-> 0,
             st |-> CommandStatusOf(<<>>, 0), flen |-> 0, returned |-> FALSE]

PollFrame == UNCHANGED <<tailVars, cmdVars, kerVars, sseVars, ctxVars, intrVars,
    lockVars, sigVars, searchVars>>

\* GetBackgroundCommandOutput -> SeekBackgroundCommandOutput(session, cursor).
SeekOutput(e, cursor) ==
    /\ LET r == SeekBackgroundCommandOutput(commandClientMap, cOut, e, cursor)
       IN  pLast' = ReadRecord("seek", e, cursor, r.err, r.data, r.cursor,
                               CommandStatusOf(<<>>, 0))
    /\ PollFrame

\* GetCommandStatus(session): the snapshot, or "command not found".
GetCommandStatus(e) ==
    /\ LET st == CommandStatusOf(commandClientMap, e)
       IN  pLast' = ReadRecord("status", e, 0,
                               IF st.found THEN "nil" ELSE "command not found",
                               <<>>, 0, st)
    /\ PollFrame

\* The background path with its readers.
PollNext ==
    \/ \E e \in CmdIds, ok \in BOOLEAN : BgBegin(e, ok)
    \/ \E e \in CmdIds : BgSpawn(e)
    \/ \E e \in CmdIds : BgComplete(e)
    \/ \E e \in CmdIds, ok \in BOOLEAN : BgGoStart(e, ok)
    \/ \E e \in CmdIds : BgGoStoreFailed(e)
    \/ \E e \in CmdIds : BgGoMarkFailed(e)
    \/ \E e \in CmdIds : BgGoStore(e)
    \/ \E e \in CmdIds : BgGoMark(e)
    \/ \E e \in CmdIds, b \in CmdBytes : ChildWrite(e, "stdout", b)
    \/ \E e \in CmdIds, code \in {0, 3} : ChildExit(e, code)
    \/ \E e \in CmdIds, cursor \in Cursors : SeekOutput(e, cursor)
    \/ \E e \in CmdIds : GetCommandStatus(e)

(***************************************************************************)
(* Context API: get, list and delete by language, next to the registry     *)
(***************************************************************************)
\* Command, BackgroundCommand and SQL (ListContext line 81): the languages
\* that run without a kernel.
NoKernelLangs == {"command", "background-command", "sql"}

\* The kernel languages of the context API: python and one more, so that
\* contexts of two languages are registered side by side.
KernelLangs == Langs \cup {"go"}

\* What a client can put in the language query parameter.
ApiLangs == KernelLangs \cup NoKernelLangs

CtxFrame == UNCHANGED <<tailVars, cmdVars, sseVars, pollVars, intrVars,
    lockVars, sigVars, searchVars>>

\* One CodeContext of a result.
CodeContext(id, language) == [id |-> id, language |-> language]

\* GetContext: the kernel is looked up and its language read. For a session
\* that is not in the map getJupyterKernel returns nil and kernel.language
\* is a nil pointer dereference: the call panics instead of returning.
GetContext(map, session) ==
    IF HasJupyterKernel(map, session)
    THEN [err |-> "nil", contexts |-> <<CodeContext(session, map[session].language)>>]
    ELSE [err |-> "panic: nil pointer dereference", contexts |-> <<>>]

\* listLanguageContexts with the language of every entry.
LanguageContexts(map, defaults, language) ==
    LET ids == ListLanguageContexts(map, defaults, language)
    IN  [i \in 1 .. Len(ids) |-> CodeContext(ids[i], language)]

\* listAllContexts: every kernel map entry, then every language default.
ListAllContexts(map, defaults) ==
    LET ids == SeqOfSet(DOMAIN map)
        ls == SeqOfSet({defaults[l] : l \in DOMAIN defaults})
    IN  [i \in 1 .. Len(ids) |-> CodeContext(ids[i], map[ids[i]].language)]
          \o [i \in 1 .. Len(ls) |->
                CodeContext(ls[i], CHOOSE l \in DOMAIN defaults : defaults[l] = ls[i])]

\* ListContext: the switch on the language.
ListContext(map, defaults, language) ==
    IF language \in NoKernelLangs
    THEN [err |-> "unsupported language context operation", contexts |-> <<>>]
    ELSE IF language = ""
    THEN [err |-> "nil", contexts |-> ListAllContexts(map, defaults)]
    ELSE [err |-> "nil", contexts |-> LanguageContexts(map, defaults, language)]

\* The call, its result, and what the registry held when it ran: whether the
\* session was in the kernel map, how many kernels of the language the map
\* held, and whether the language had a default.
CallRecord(op, session, language, r) ==
    [op |-> op, session |-> session, language |-> language,
     err |-> r.err, contexts |-> r.contexts,
     found |-> HasJupyterKernel(jupyterClientMap, session),
     kernels |-> Cardinality({s \in DOMAIN jupyterClientMap :
                                  jupyterClientMap[s].language = language}),
     dflt |-> language \in DOMAIN defaultLanguageJupyterSessions]

CtxInit ==
    qLast = [op |-> "none", session |-> 0, language |-> "", err |-> "nil",
             contexts |-> <<>>, found |-> FALSE, kernels |-> 0, dflt |-> FALSE]

\* GET /code/contexts/{contextId}.
GetContextCall(session) ==
    /\ qLast' = CallRecord("get", session, "", GetContext(jupyterClientMap, session))
    /\ UNCHANGED kerVars
    /\ CtxFrame

\* GET /code/contexts?language=...
ListContextCall(language) ==
    /\ qLast' = CallRecord("list", 0, language,
                    ListContext(jupyterClientMap, defaultLanguageJupyterSessions,
                                language))
    /\ UNCHANGED kerVars
    /\ CtxFrame

\* The registry operations, executes on the language default whose kernel
\* connection fails, and the readers of the registry.
CtxNext ==
    \/ \E t \in Callers, l \in KernelLangs, ok \in BOOLEAN : CreateBegin(t, l, ok)
    \/ \E t \in Callers : CreateStore(t)
    \/ \E t \in Callers, s \in SessIds : DeleteBegin(t, s)
    \/ \E t \in Callers, ok \in BOOLEAN : DeleteRemote(t, ok)
    \/ \E t \in Callers : DeleteCleanup(t)
    \/ \E t \in Callers, l \in ApiLangs : DeleteLanguageBegin(t, l)
    \/ \E t \in Callers, s \in SessIds : DeleteLanguageNext(t, s)
    \/ \E t \in Callers, l \in KernelLangs : ExecBegin(t, l, 0)
    \/ \E t \in Callers, ok \in BOOLEAN : ExecProvision(t, ok)
    \/ \E t \in Callers : ExecProvisionStore(t)
    \/ \E t \in Callers : ExecTarget(t)
    \/ \E t \in Callers, o \in {"connect failed", "send failed"} : ExecConnect(t, o)
    \/ \E s \in SessIds : GetContextCall(s)
    \/ \E l \in ApiLangs \cup {""} : ListContextCall(l)

(***************************************************************************)
(* Interrupt of a command session                                          *)
(***************************************************************************)
\* The command sessions of the interrupt specification.
IntrIds == 1 .. MaxIntrCmd

IntrFrame == UNCHANGED <<tailVars, kerVars, sseVars, pollVars, ctxVars,
    lockVars, sigVars, searchVars>>

IntrInit ==
    /\ cKid = [e \in CmdIds |-> "none"]
    /\ cTerm = [e \in CmdIds |-> FALSE]
    /\ cKill = [e \in CmdIds |-> FALSE]
    /\ iPc = [e \in CmdIds |-> "idle"]
    /\ iWait = [e \in CmdIds |-> "none"]
    /\ iRet = [e \in CmdIds |-> "pending"]
    /\ iSaw = [e \in CmdIds |-> "none"]
    /\ iHit = [e \in CmdIds |-> "none"]
    /\ iCalls = 0

\* Interrupt lines 33-43: which case of the switch a session id takes.
InterruptTarget(kernels, commands, session) ==
    IF session \in DOMAIN kernels THEN "kernel"
    ELSE IF session \in DOMAIN commands THEN "command"
    ELSE "no such session"

\* The processes a signal sent by killPid reaches: process.Signal on the
\* result of os.FindProcess(pid) is kill(pid, sig) with a positive pid, and
\* that signals the process pid alone, not its group.
SignalReach(e) == {"leader"}

\* process.Signal on pid: a pid of -1 is refused ("process already
\* released"); a child whose exit status has been collected is gone
\* ("process already finished"); otherwise the signal is sent.
SignalResult(pid, reaped) ==
    IF pid = -1 THEN "os: process already released"
    ELSE IF reaped # "no" THEN "os: process already finished"
    ELSE "nil"

IntrReturn(e, ret) ==
    /\ iPc' = [iPc EXCEPT ![e] = "returned"]
    /\ iRet' = [iRet EXCEPT ![e] = ret]

\* The child forks a descendant, which stays in the child's process group.
ChildFork(e) ==
    /\ cProc[e] = "running"
    /\ cKid[e] = "none"
    /\ cKid' = [cKid EXCEPT ![e] = "running"]
    /\ UNCHANGED <<cTerm, cKill, iPc, iWait, iRet, iSaw, iHit, iCalls, cmdVars>>
    /\ IntrFrame

\* The child dies of the pending SIGTERM. A child that handles or ignores
\* the signal goes on, and may exit by itself.
ChildTermExit(e) ==
    /\ cProc[e] = "running"
    /\ cTerm[e]
    /\ cProc' = [cProc EXCEPT ![e] = "exited"]
    /\ cExit' = [cExit EXCEPT ![e] = Some(-1)]
    /\ UNCHANGED <<cMode, cPc, gPc, cRet, cReaped, cCtxDone, cOut, cTail, cDone,
                   cEvents, commandClientMap>>
    /\ UNCHANGED intrVars
    /\ IntrFrame

\* Interrupt lines 33-43: the session is looked up under c.mu.RLock.
IntrBegin(e) ==
    /\ iPc[e] \in {"idle", "returned"}
    /\ iWait[e] # "blocked"
    /\ iCalls < MaxIntr
    /\ iCalls' = iCalls + 1
    /\ iWait' = [iWait EXCEPT ![e] = "none"]
    /\ iHit' = [iHit EXCEPT ![e] = "none"]
    /\ IF InterruptTarget(jupyterClientMap, commandClientMap, e) = "command"
       THEN /\ iSaw' = [iSaw EXCEPT ![e] =
                          IF commandClientMap[e].running THEN "running"
                          ELSE "finished"]
            /\ iPc' = [iPc EXCEPT ![e] = "term"]
            /\ iRet' = [iRet EXCEPT ![e] = "pending"]
       ELSE /\ iSaw' = [iSaw EXCEPT ![e] = "none"]
            /\ IntrReturn(e, "no such session")
    /\ UNCHANGED <<cKid, cTerm, cKill, cmdVars>>
    /\ IntrFrame

\* killPid lines 48-64: SIGTERM; when it is sent, a goroutine waits on the
\* process; "already finished" returns nil, another error goes on to SIGKILL.
IntrTerm(e) ==
    /\ iPc[e] = "term"
    /\ LET r == SignalResult(commandClientMap[e].pid, cReaped[e]) IN
        IF r = "nil"
        THEN /\ iHit' = [iHit EXCEPT ![e] = cProc[e]]
             /\ cTerm' = [cTerm EXCEPT ![e] =
                            "leader" \in SignalReach(e) /\ cProc[e] = "running"]
             /\ iWait' = [iWait EXCEPT ![e] = "blocked"]
             /\ iPc' = [iPc EXCEPT ![e] = "select"]
             /\ UNCHANGED iRet
        ELSE IF r = "os: process already finished"
        THEN /\ IntrReturn(e, "nil")
             /\ UNCHANGED <<iHit, cTerm, iWait>>
        ELSE /\ iPc' = [iPc EXCEPT ![e] = "kill"]
             /\ UNCHANGED <<iHit, cTerm, iWait, iRet>>
    /\ UNCHANGED <<cKid, cKill, iSaw, iCalls, cmdVars>>
    /\ IntrFrame

\* killPid line 62: process.Wait in the goroutine collects the exit status.
IntrWaitReap(e) ==
    /\ iWait[e] = "blocked"
    /\ cProc[e] = "exited"
    /\ cReaped[e] = "no"
    /\ cReaped' = [cReaped EXCEPT ![e] = Reap(@, "intr")]
    /\ iWait' = [iWait EXCEPT ![e] = "ok"]
    /\ UNCHANGED <<cMode, cPc, gPc, cRet, cProc, cExit, cCtxDone, cOut, cTail,
                   cDone, cEvents, commandClientMap>>
    /\ UNCHANGED <<cKid, cTerm, cKill, iPc, iRet, iSaw, iHit, iCalls>>
    /\ IntrFrame

\* killPid line 62: the executor's cmd.Wait was first, process.Wait fails.
IntrWaitFail(e) ==
    /\ iWait[e] = "blocked"
    /\ cReaped[e] = "exec"
    /\ iWait' = [iWait EXCEPT ![e] = "echild"]
    /\ UNCHANGED <<cKid, cTerm, cKill, iPc, iRet, iSaw, iHit, iCalls, cmdVars>>
    /\ IntrFrame

\* killPid lines 66-71: the goroutine has answered; nil returns nil, an
\* error falls through to SIGKILL.
IntrSelect(e) ==
    /\ iPc[e] = "select"
    /\ iWait[e] \in {"ok", "echild"}
    /\ IF iWait[e] = "ok"
       THEN IntrReturn(e, "nil")
       ELSE /\ iPc' = [iPc EXCEPT ![e] = "kill"]
            /\ UNCHANGED iRet
    /\ UNCHANGED <<cKid, cTerm, cKill, iWait, iSaw, iHit, iCalls, cmdVars>>
    /\ IntrFrame

\* killPid lines 72-73: three seconds have passed. The timers of killPid
\* are long against a wake-up from wait: they expire only while the child
\* is still running.
IntrTimeout(e) ==
    /\ iPc[e] = "select"
    /\ iWait[e] = "blocked"
    /\ cProc[e] = "running"
    /\ iPc' = [iPc EXCEPT ![e] = "kill"]
    /\ UNCHANGED <<cKid, cTerm, cKill, iWait, iRet, iSaw, iHit, iCalls, cmdVars>>
    /\ IntrFrame

\* killPid lines 77-82: SIGKILL.  It cannot be caught; the child dies of it
\* when the kernel gets to deliver it.
IntrKill(e) ==
    /\ iPc[e] = "kill"
    /\ LET r == SignalResult(commandClientMap[e].pid, cReaped[e]) IN
        IF r = "nil"
        THEN /\ iPc' = [iPc EXCEPT ![e] = "probe 1"]
             /\ cKill' = [cKill EXCEPT ![e] =
                            "leader" \in SignalReach(e) /\ cProc[e] = "running"]
             /\ UNCHANGED iRet
        ELSE IF r = "os: process already finished"
        THEN /\ IntrReturn(e, "nil")
             /\ UNCHANGED cKill
        ELSE /\ IntrReturn(e, "failed to kill process")
             /\ UNCHANGED cKill
    /\ UNCHANGED <<cKid, cTerm, iWait, iSaw, iHit, iCalls, cmdVars>>
    /\ IntrFrame

\* The child dies of the pending SIGKILL.
ChildKillExit(e) ==
    /\ cProc[e] = "running"
    /\ cKill[e]
    /\ cProc' = [cProc EXCEPT ![e] = "exited"]
    /\ cExit' = [cExit EXCEPT ![e] = Some(-1)]
    /\ UNCHANGED <<cMode, cPc, gPc, cRet, cReaped, cCtxDone, cOut, cTail, cDone,
                   cEvents, commandClientMap>>
    /\ UNCHANGED intrVars
    /\ IntrFrame

\* A probe that reports a running process without sending signal 0.
IntrProbeBlind(e) ==
    /\ iPc[e] \in {"probe 1", "probe 2", "probe 3"}
    /\ ~(cProc[e] = "exited" /\ cReaped[e] = "no")
    /\ IntrReturn(e, "might still be running")
    /\ UNCHANGED <<cKid, cTerm, cKill, iWait, iSaw, iHit, iCalls, cmdVars>>
    /\ IntrFrame

\* killPid lines 84-95: up to three probes with signal 0, 50 ms apart; "already
\* finished" returns nil, and a process that answers all three is reported
\* as possibly still running.  A child that has exited is collected by one
\* of the waits before the next probe.
IntrProbe(e) ==
    /\ iPc[e] \in {"probe 1", "probe 2", "probe 3"}
    /\ ~(cProc[e] = "exited" /\ cReaped[e] = "no")
    /\ IF SignalResult(commandClientMap[e].pid, cReaped[e])
            = "os: process already finished"
       THEN IntrReturn(e, "nil")
       ELSE IF iPc[e] = "probe 3"
       THEN IntrReturn(e, "might still be running")
       ELSE /\ iPc' = [iPc EXCEPT ![e] =
                          IF iPc[e] = "probe 1" THEN "probe 2" ELSE "probe 3"]
            /\ UNCHANGED iRet
    /\ UNCHANGED <<cKid, cTerm, cKill, iWait, iSaw, iHit, iCalls, cmdVars>>
    /\ IntrFrame

\* The command executor, the child and its group, and interrupt calls.
IntrNext ==
    \/ \E e \in IntrIds : FgBegin(e)
    \/ \E e \in IntrIds, ok \in BOOLEAN : FgStart(e, ok)
    \/ \E e \in IntrIds : FgStore(e)
    \/ \E e \in IntrIds : FgInit(e)
    \/ \E e \in IntrIds, s \in Streams, b \in CmdBytes : ChildWrite(e, s, b)
    \/ \E e \in IntrIds, code \in {0, 3} : ChildExit(e, code)
    \/ \E e \in IntrIds : FgWait(e)
    \/ \E e \in IntrIds, s \in Streams : TailerTick(e, s)
    \/ \E e \in IntrIds, s \in Streams : TailerFlush(e, s)
    \/ \E e \in IntrIds : FgDrained(e)
    \/ \E e \in IntrIds : FgMarkFailed(e)
    \/ \E e \in IntrIds : FgComplete(e)
    \/ \E e \in IntrIds : BgBegin(e, TRUE)
    \/ \E e \in IntrIds : BgSpawn(e)
    \/ \E e \in IntrIds : BgComplete(e)
    \/ \E e \in IntrIds, ok \in BOOLEAN : BgGoStart(e, ok)
    \/ \E e \in IntrIds : BgGoStoreFailed(e)
    \/ \E e \in IntrIds : BgGoMarkFailed(e)
    \/ \E e \in IntrIds : BgGoStore(e)
    \/ \E e \in IntrIds : BgGoMark(e)
    \/ \E e \in IntrIds : ChildFork(e)
    \/ \E e \in IntrIds : ChildTermExit(e)
    \/ \E e \in IntrIds : IntrBegin(e)
    \/ \E e \in IntrIds : IntrTerm(e)
    \/ \E e \in IntrIds : IntrWaitReap(e)
    \/ \E e \in IntrIds : IntrWaitFail(e)
    \/ \E e \in IntrIds : IntrSelect(e)
    \/ \E e \in IntrIds : IntrTimeout(e)
    \/ \E e \in IntrIds : IntrKill(e)
    \/ \E e \in IntrIds : ChildKillExit(e)
    \/ \E e \in IntrIds : IntrProbe(e)

(***************************************************************************)
(* The controller's lock and the three maps it guards.  A goroutine walks  *)
(* the lock calls and map accesses of the path it serves, in source order; *)
(* a map access takes time, so two accesses can overlap.  Which path a     *)
(* request takes depends on the maps' contents; here it is chosen when     *)
(* the path starts.                                                        *)
(***************************************************************************)
LockFrame ==
    UNCHANGED <<tailVars, cmdVars, kerVars, sseVars, pollVars, ctxVars,
                intrVars, sigVars, searchVars>>

LockPaths ==
    [ \* runJupyter, no context id, no default yet: the two reads of the
      \* default map are outside c.mu; createDefaultLanguageContext between
      execute |-> << <<"read", "defaultLanguageJupyterSessions">>,
                     <<"Lock", "mu">>,
                     <<"write", "defaultLanguageJupyterSessions">>,
                     <<"write", "jupyterClientMap">>,
                     <<"Unlock", "mu">>,
                     <<"read", "defaultLanguageJupyterSessions">>,
                     <<"RLock", "mu">>, <<"read", "jupyterClientMap">>,
                     <<"RUnlock", "mu">> >>,
      \* runJupyter, no context id, the default is there
      executeDefault |-> << <<"read", "defaultLanguageJupyterSessions">>,
                            <<"read", "defaultLanguageJupyterSessions">>,
                            <<"RLock", "mu">>, <<"read", "jupyterClientMap">>,
                            <<"RUnlock", "mu">> >>,
      \* runJupyter with a context id: getJupyterKernel
      executeContext |-> << <<"RLock", "mu">>, <<"read", "jupyterClientMap">>,
                            <<"RUnlock", "mu">> >>,
      \* CreateContext: storeJupyterKernel
      create |-> << <<"Lock", "mu">>, <<"write", "jupyterClientMap">>,
                    <<"Unlock", "mu">> >>,
      \* deleteSessionAndCleanup: getJupyterKernel, then the two deletes
      delete |-> << <<"RLock", "mu">>, <<"read", "jupyterClientMap">>,
                    <<"RUnlock", "mu">>, <<"Lock", "mu">>,
                    <<"write", "jupyterClientMap">>,
                    <<"write", "defaultLanguageJupyterSessions">>,
                    <<"Unlock", "mu">> >>,
      \* listAllContexts / listLanguageContexts
      list |-> << <<"RLock", "mu">>, <<"read", "jupyterClientMap">>,
                  <<"read", "defaultLanguageJupyterSessions">>,
                  <<"RUnlock", "mu">> >>,
      \* Interrupt of a command session: getJupyterKernel, then
      \* getCommandKernel twice
      interrupt |-> << <<"RLock", "mu">>, <<"read", "jupyterClientMap">>,
                       <<"RUnlock", "mu">>, <<"RLock", "mu">>,
                       <<"read", "commandClientMap">>, <<"RUnlock", "mu">>,
                       <<"RLock", "mu">>, <<"read", "commandClientMap">>,
                       <<"RUnlock", "mu">> >>,
      \* runCommand: storeCommandKernel, later markCommandFinished
      command |-> << <<"Lock", "mu">>, <<"write", "commandClientMap">>,
                     <<"Unlock", "mu">>, <<"Lock", "mu">>,
                     <<"read", "commandClientMap">>, <<"Unlock", "mu">> >>,
      \* GetCommandStatus: commandSnapshot
      status |-> << <<"RLock", "mu">>, <<"read", "commandClientMap">>,
                    <<"RUnlock", "mu">> >> ]

LockInit ==
    /\ cMu = [w |-> 0, r |-> {}]
    /\ lPath = [g \in 1..MaxLockers |-> <<>>]
    /\ lAcc = [g \in 1..MaxLockers |-> None]
    /\ lOps = 0

\* a request arrives and a goroutine starts on its path
LockerStart(g, op) ==
    /\ lPath[g] = <<>>
    /\ lOps < MaxLockOps
    /\ lPath' = [lPath EXCEPT ![g] = LockPaths[op]]
    /\ lOps' = lOps + 1
    /\ UNCHANGED <<cMu, lAcc>>
    /\ LockFrame

\* the goroutine's next step is a call on c.mu: Lock waits for the lock to
\* be free, RLock for no writer to hold it
LockerSync(g) ==
    /\ lPath[g] # <<>>
    /\ Head(lPath[g])[2] = "mu"
    /\ CASE Head(lPath[g])[1] = "Lock" ->
                /\ cMu.w = 0 /\ cMu.r = {}
                /\ cMu' = [cMu EXCEPT !.w = g]
         [] Head(lPath[g])[1] = "Unlock" -> cMu' = [cMu EXCEPT !.w = 0]
         [] Head(lPath[g])[1] = "RLock" ->
                /\ cMu.w = 0
                /\ cMu' = [cMu EXCEPT !.r = @ \cup {g}]
         [] Head(lPath[g])[1] = "RUnlock" -> cMu' = [cMu EXCEPT !.r = @ \ {g}]
    /\ lPath' = [lPath EXCEPT ![g] = Tail(@)]
    /\ UNCHANGED <<lAcc, lOps>>
    /\ LockFrame

\* the goroutine's next step is a map read or write: it begins
AccessBegin(g) ==
    /\ lPath[g] # <<>>
    /\ Head(lPath[g])[2] # "mu"
    /\ lAcc[g] = None
    /\ lAcc' = [lAcc EXCEPT ![g] = Some(Head(lPath[g]))]
    /\ UNCHANGED <<cMu, lPath, lOps>>
    /\ LockFrame

\* ... and ends
AccessEnd(g) ==
    /\ lAcc[g] # None
    /\ lAcc' = [lAcc EXCEPT ![g] = None]
    /\ lPath' = [lPath EXCEPT ![g] = Tail(@)]
    /\ UNCHANGED <<cMu, lOps>>
    /\ LockFrame

LockNext ==
    \/ \E g \in 1..MaxLockers, op \in DOMAIN LockPaths : LockerStart(g, op)
    \/ \E g \in 1..MaxLockers : LockerSync(g)
    \/ \E g \in 1..MaxLockers : AccessBegin(g)
    \/ \E g \in 1..MaxLockers : AccessEnd(g)

(***************************************************************************)
(* Signal relay of the command executors                                   *)
(***************************************************************************)
Signals == {"SIGINT", "SIGCHLD", "SIGURG"}

SignalsChanCap == 1

SigFrame ==
    UNCHANGED <<tailVars, cmdVars, kerVars, sseVars, pollVars, ctxVars,
                intrVars, lockVars, searchVars>>

SigInit ==
    /\ sPc = [e \in CmdIds |-> "idle"]
    /\ sNotify = {}
    /\ sChan = [e \in CmdIds |-> <<>>]
    /\ sSeen = [e \in CmdIds |-> <<>>]
    /\ sFwd = [e \in CmdIds |-> <<>>]
    /\ sCount = 0

\* the signals of a sequence that the relay sends on
Forwarded(sigs) == SelectSeq(sigs, LAMBDA g : g \notin {"SIGCHLD", "SIGURG"})

\* runCommand lines 41-43 / runBackgroundCommand lines 163-165: the signals
\* channel is made and signal.Notify(signals) subscribes it to every signal.
SigNotify(e, mode) ==
    /\ sPc[e] = "idle"
    /\ sPc' = [sPc EXCEPT ![e] = mode]
    /\ sNotify' = sNotify \cup {e}
    /\ UNCHANGED <<sChan, sSeen, sFwd, sCount>>
    /\ SigFrame

\* runCommand lines 77-112: the child is started and the relay goroutine
\* launched; from here on the command is running.
SigStart(e) ==
    /\ sPc[e] = "fg"
    /\ sPc' = [sPc EXCEPT ![e] = "running"]
    /\ UNCHANGED <<sNotify, sChan, sSeen, sFwd, sCount>>
    /\ SigFrame

\* The daemon receives a signal: os/signal sends it, without blocking, on
\* every subscribed channel that has room.
SigDeliver(sig) ==
    /\ sCount < MaxSigs
    /\ sCount' = sCount + 1
    /\ sChan' = [e \in CmdIds |->
                    IF e \in sNotify /\ Len(sChan[e]) < SignalsChanCap
                    THEN Append(sChan[e], sig) ELSE sChan[e]]
    /\ sSeen' = [e \in CmdIds |->
                    IF sPc[e] = "running" THEN sSeen[e] \o Forwarded(<<sig>>)
                    ELSE sSeen[e]]
    /\ UNCHANGED <<sPc, sNotify, sFwd>>
    /\ SigFrame

\* runCommand lines 97-112: the relay goroutine takes a signal from the
\* channel and, unless it is SIGCHLD or SIGURG, sends it to the group.
SigRelay(e) ==
    /\ sPc[e] = "running"
    /\ sChan[e] # <<>>
    /\ sChan' = [sChan EXCEPT ![e] = Tail(@)]
    /\ sFwd' = [sFwd EXCEPT ![e] = @ \o Forwarded(<<Head(sChan[e])>>)]
    /\ UNCHANGED <<sPc, sNotify, sSeen, sCount>>
    /\ SigFrame

\* The executor returns (a foreground one after its child has exited or has
\* failed to start, a background one at once): the deferred signal.Reset()
\* has no arguments and undoes every Notify of the process, then the
\* channel is closed; the context ends and with it the relay.
SigReturn(e) ==
    /\ sPc[e] \in {"fg", "running", "bg"}
    /\ sPc' = [sPc EXCEPT ![e] = "returned"]
    /\ sNotify' = {}
    /\ sChan' = [sChan EXCEPT ![e] = <<>>]
    /\ UNCHANGED <<sSeen, sFwd, sCount>>
    /\ SigFrame

SigNext ==
    \/ \E e \in CmdIds, mode \in {"fg", "bg"} : SigNotify(e, mode)
    \/ \E e \in CmdIds : SigStart(e)
    \/ \E sig \in Signals : SigDeliver(sig)
    \/ \E e \in CmdIds : SigRelay(e)
    \/ \E e \in CmdIds : SigReturn(e)

(***************************************************************************)
(* Kernel lookup                                                           *)
(***************************************************************************)
KernelNames == {"python3", "ir", "r-alt"}

SpecLanguages == {"python", "r"}

SearchFrame ==
    UNCHANGED <<tailVars, cmdVars, kerVars, sseVars, pollVars, ctxVars,
                intrVars, lockVars, sigVars>>

\* The kernelspecs a server may list: up to MaxSpecs of them, their names
\* distinct.
KernelSpecLists ==
    UNION {{l \in [1 .. n -> [name : KernelNames, language : SpecLanguages]] :
               \A i, j \in 1 .. n : l[i].name = l[j].name => i = j} :
           n \in 0 .. MaxSpecs}

\* The orders in which a range over a Go map of n entries may visit them.
Orders(n) ==
    {o \in [1 .. n -> 1 .. n] : \A i, j \in 1 .. n : o[i] = o[j] => i = j}

\* searchKernel lines 259-269: the loop over specs.Kernelspecs.  It does not
\* stop at a match: a later match replaces kernelName.
RECURSIVE SearchLoop(_, _, _, _)
SearchLoop(specs, language, order, kernelName) ==
    IF order = <<>> THEN kernelName
    ELSE LET spec == specs[Head(order)]
         IN  SearchLoop(specs, language, Tail(order),
                        IF spec.name # "python3" /\ spec.language = language
                        THEN spec.name ELSE kernelName)

\* searchKernel lines 249-274, the kernelspecs fetched.
SearchKernel(specs, language, order) ==
    IF Len(specs) = 0
    THEN [name |-> "", err |-> "no kernel specs found"]
    ELSE LET kernelName == SearchLoop(specs, language, order, "")
         IN  IF kernelName = ""
             THEN [name |-> "", err |-> "no kernel specs found"]
             ELSE [name |-> kernelName, err |-> "nil"]

SearchInit ==
    /\ ksSpecs = <<>>
    /\ ksCalls = <<>>

\* Kernels are installed on the Jupyter server.
KernelSpecsInstall(specs) ==
    /\ ksSpecs = <<>>
    /\ ksCalls = <<>>
    /\ specs # <<>>
    /\ ksSpecs' = specs
    /\ UNCHANGED ksCalls
    /\ SearchFrame

\* One call of searchKernel; the range visits the map in some order.
SearchKernelCall(language) ==
    /\ Len(ksCalls) < MaxSearch
    /\ \E order \in Orders(Len(ksSpecs)) :
          ksCalls' = Append(ksCalls,
                            [language |-> language,
                             found |-> SearchKernel(ksSpecs, language, order)])
    /\ UNCHANGED ksSpecs
    /\ SearchFrame

SearchNext ==
    \/ \E specs \in KernelSpecLists : KernelSpecsInstall(specs)
    \/ \E language \in SpecLanguages : SearchKernelCall(language)

(***************************************************************************)
(* Specifications                                                          *)
(***************************************************************************)
Init ==
    TailInit /\ CmdInit /\ KerInit /\ SseInit /\ PollInit /\ CtxInit /\ IntrInit
    /\ LockInit /\ SigInit /\ SearchInit

SpecTail == Init /\ [][TailNext]_vars

SpecCmd == Init /\ [][CmdNext]_vars

SpecKer == Init /\ [][KerNext]_vars

SpecSSE == Init /\ [][SseNext]_vars

SpecPoll == Init /\ [][PollNext]_vars

SpecCtx == Init /\ [][CtxNext]_vars

SpecIntr == Init /\ [][IntrNext]_vars

SpecLock == Init /\ [][LockNext]_vars

SpecSig == Init /\ [][SigNext]_vars

SpecReader == Init /\ [][ReaderNext]_vars

SpecRetry == Init /\ [][RetryNext]_vars

SpecSearch == Init /\ [][SearchNext]_vars

\* The goroutines of an execute keep running: the one started by status
\* idle, and the loop of runJupyterCode.  Nothing makes the kernel send a
\* message, and the deadline exists only when the request sets a timeout.
SpecExec ==
    /\ Init
    /\ [][ExecNext]_vars
    /\ WF_vars(ExecProvisionStore(1))
    /\ WF_vars(ExecTarget(1))
    /\ WF_vars(IdleSend(1))
    /\ WF_vars(IdleClose(1))
    /\ WF_vars(ExecConsume(1))
    /\ WF_vars(ExecEnd(1))

(***************************************************************************)
(* Claims                                                                  *)
(***************************************************************************)

\* The lines of a sequence of lines, concatenated.
RECURSIVE Flatten(_)
Flatten(lines) ==
    IF lines = <<>> THEN <<>> ELSE Head(lines) \o Flatten(Tail(lines))

\* The file content with the \n and \r terminators removed.
StripTerminators(file) == SelectSeq(file, LAMBDA b : ~IsTerminator(b))

IsPrefix(s, t) == Len(s) <= Len(t) /\ SubSeq(t, 1, Len(s)) = s

\* C10: the emitted lines, concatenated in order, are a prefix of the file
\* content with the terminators removed (nothing twice, nothing skipped,
\* file order).
C10_TailPrefix == IsPrefix(Flatten(tEmitted), StripTerminators(tFile))

\* C10 witness: a partial segment was held back by a periodic read, and the
\* final flush read has emitted it after an earlier terminated line.
C10_Witness ==
    /\ tExited
    /\ Len(tEmitted) >= 2
    /\ tLastPos > 0
    /\ tLastPos < Len(tFile)
    /\ ~IsTerminator(tFile[Len(tFile)])
    /\ Flatten(tEmitted) = StripTerminators(tFile)

\* The two shapes of a registered command's status.
StatusShapeOk(st) ==
    \/ st.running /\ st.exitCode = None /\ st.finishedAt = None
    \/ ~st.running /\ st.exitCode # None /\ st.finishedAt # None

\* C1: every command context in the registry, as a reader under the read
\* lock sees it, is either running with exit code and finish time unset, or
\* not running with both set.
C1_StatusShape ==
    \A e \in CmdIds :
        LET st == CommandStatusOf(commandClientMap, e)
        IN  st.found => StatusShapeOk(st)

\* The positions of the events of the given types in a sequence of events.
Positions(events, types) ==
    {i \in 1 .. Len(events) : events[i].type \in types}

\* C5: for a foreground command, on_init comes before every on_stdout,
\* on_stderr, on_error and on_complete of the session.
C5_InitFirst ==
    \A e \in CmdIds :
        cMode[e] = "fg" =>
            \A i \in Positions(cEvents[e], {"stdout", "stderr", "error", "complete"}) :
                \E j \in Positions(cEvents[e], {"init"}) : j < i

\* Caller t has an execute in progress on the kernel context s.
InProgress(t, s) ==
    tOp[t] = "execute" /\ tPc[t] \in {"connect", "streaming"} /\ tSess[t] = s

\* Caller t's execute has just been refused with the session-busy error.
RefusedBusy(t) ==
    tOp[t] = "execute" /\ tPc[t] = "done" /\ tRet[t] = "session is busy"

\* C2: at most one execute is in progress on a kernel context, and it holds
\* the context's lock; an execute that finds the context busy returns the
\* session-busy error in the step that tried the lock, and that step changes
\* neither the lock, the connection, the results channel nor the events of
\* the execute in progress.
C2_BusyLock ==
    /\ [](\A s \in SessIds :
            /\ Cardinality({t \in Callers : InProgress(t, s)}) <= 1
            /\ \A t \in Callers : InProgress(t, s) => kMu[s] = t)
    /\ [][\A t \in Callers :
            (tPc[t] = "target" /\ RefusedBusy(t)') =>
                /\ kMu[tSess'[t]] \notin {0, t}
                /\ tOp'[kMu[tSess'[t]]] = "execute"
                /\ tPc'[kMu[tSess'[t]]] \in {"connect", "streaming"}
                /\ tSess'[kMu[tSess'[t]]] = tSess'[t]
                /\ UNCHANGED <<kMu, kConn, execVars>>
                /\ \A u \in Callers \ {t} :
                      /\ tPc'[u] = tPc[u]
                      /\ tEvents'[u] = tEvents[u]
                      /\ tRet'[u] = tRet[u]]_vars

\* C2 witness: an execute is streaming on a context while another caller's
\* execute on the same context has been refused as busy.
C2_Witness ==
    \E t \in Callers, u \in Callers :
        /\ t # u
        /\ RefusedBusy(t)
        /\ tPc[u] = "streaming"
        /\ InProgress(u, tSess[t])
        /\ tEvents[u] # <<>>

\* C3: an execute that has returned and emitted init has emitted exactly one
\* terminating event (execution_complete or error).
C3_OneTerminal ==
    \A t \in Callers :
        (tOp[t] = "execute" /\ tPc[t] = "done"
           /\ Positions(tEvents[t], {"init"}) # {}) =>
            Cardinality(Positions(tEvents[t], {"complete", "error"})) = 1

\* setServerEventsHandler: the SSE frames one hook call writes.
FramesOfEvent(ev) ==
    CASE ev.type = "result" ->
           (IF ev.arg > 0 THEN <<"execution_count">> ELSE <<>>) \o <<"result">>
      [] ev.type = "complete" -> <<"execution_complete">>
      [] OTHER -> <<ev.type>>

RECURSIVE FramesOf(_)
FramesOf(events) ==
    IF events = <<>> THEN <<>>
    ELSE FramesOfEvent(Head(events)) \o FramesOf(Tail(events))

\* C6: on the connection of an execute, no stdout, stderr, result,
\* execution_count or status frame comes after an execution_complete or
\* error frame.
C6_NothingAfterTerminal ==
    \A t \in Callers :
        LET frames == FramesOf(tEvents[t])
        IN  \A i \in 1 .. Len(frames), j \in 1 .. Len(frames) :
                (i < j /\ frames[i] \in {"execution_complete", "error"}) =>
                    frames[j] \notin {"stdout", "stderr", "result",
                                      "execution_count", "status"}

\* C8: two executes with an empty context id for the same language never
\* both create a kernel context for the language default.
C8_OneProvisioning ==
    \A t \in Callers, u \in Callers :
        (t # u /\ tOp[t] = "execute" /\ tOp[u] = "execute"
           /\ tCtx[t] = 0 /\ tCtx[u] = 0 /\ tLang[t] = tLang[u]) =>
            ~(tPc[t] = "provision store" /\ tPc[u] = "provision store")

\* C9: every session id in the language-default map is a key of the kernel
\* map.
C9_DefaultsInKernelMap ==
    \A l \in DOMAIN defaultLanguageJupyterSessions :
        defaultLanguageJupyterSessions[l] \in DOMAIN jupyterClientMap

\* C9 witness: a default context was provisioned and a delete has then
\* removed it from both maps.
C9_Witness ==
    \E t \in Callers :
        /\ tOp[t] \in {"delete", "delete language"}
        /\ tPc[t] = "done"
        /\ tRet[t] = "nil"
        /\ tSess[t] \notin DOMAIN jupyterClientMap
        /\ \E u \in Callers :
              /\ tOp[u] = "execute"
              /\ tSess[u] = tSess[t]
              /\ tCtx[u] = 0
              /\ Positions(tEvents[u], {"init"}) # {}
        /\ DOMAIN defaultLanguageJupyterSessions = {}

\* C4: while Execute runs, once the request context is done the context the
\* executor runs under is done too.
C4_DisconnectCancels ==
    (hPc = "execute" /\ hReqDone) => hExecCtxDone

\* C7: at most one goroutine at a time is inside a Write on the response.
C7_AtomicWrites == Cardinality(hWriting) <= 1

\* The last read was a seek on a session registered as a background command.
SeekOnRegistered ==
    /\ pLast.op = "seek"
    /\ pLast.err \notin {"command not found", "not running in background"}

\* What the seek result promises: the cursor does not go back, the bytes are
\* file[arg:cursor], a second call with the returned cursor gives no bytes
\* and no smaller cursor when nothing was appended, and in any case gives
\* exactly the rest of the file.
SeekResultOk ==
    LET file == cOut[pLast.session]["stdout"]
        again == SeekBackgroundCommandOutput(commandClientMap, cOut,
                                             pLast.session, pLast.cursor)
    IN  /\ pLast.err = "nil"
        /\ pLast.cursor >= pLast.arg
        /\ pLast.data = SubSeq(file, pLast.arg + 1, pLast.cursor)
        /\ again.err = "nil"
        /\ again.cursor >= pLast.cursor
        /\ Len(file) = pLast.flen => again.data = <<>>
        /\ pLast.data \o again.data = SubSeq(file, pLast.arg + 1, Len(file))

\* C11 (as stated): for a registered background command and any cursor the
\* seek returns bytes and a cursor that chain without gap or repetition.
C11_SeekAnyCursor == SeekOnRegistered => SeekResultOk

\* C11 (amended): the same for any cursor that is not negative; a negative
\* cursor is refused with a seek error and no bytes.
C11_SeekChains ==
    SeekOnRegistered =>
        IF pLast.arg >= 0
        THEN SeekResultOk
        ELSE pLast.err = "error seek file" /\ pLast.data = <<>>

\* C11 witness: a seek returned bytes, and the child has appended to the
\* file since, so that a second call with the returned cursor has bytes to
\* return.
C11_Witness ==
    /\ SeekOnRegistered
    /\ pLast.arg = 0
    /\ pLast.data # <<>>
    /\ Len(cOut[pLast.session]["stdout"]) > pLast.flen

\* The deadline of the foreground execute e expired while its child ran,
\* and the execute has returned.
TimedOut(e) ==
    cMode[e] = "fg" /\ cPc[e] = "returned" /\ cExit[e] = Some(-1)

\* C12: a foreground command whose timeout expired as it ran gets exactly one
\* terminating callback, and that one is on_complete or
\* on_error(ContextCancelled).
C12_TimeoutRace ==
    \A e \in CmdIds :
        TimedOut(e) =>
            LET T == Positions(cEvents[e], {"complete", "error"})
            IN  /\ Cardinality(T) = 1
                /\ \A i \in T :
                      \/ cEvents[e][i].type = "complete"
                      \/ cEvents[e][i].arg[1] = "ContextCancelled"

\* The positions of the ContextCancelled / "Interrupt kernel" error events.
CancelPositions(events) ==
    {i \in Positions(events, {"error"}) :
        events[i].arg = <<"ContextCancelled", "Interrupt kernel">>}

\* C13: a kernel execute that leaves its streaming loop with an error has
\* requested the kernel interrupt and emitted the ContextCancelled error as
\* its last event, whether or not the idle status was seen; it emitted that
\* error exactly once, and a returned execute emits nothing more (its
\* events stay as they are until the caller starts its next operation).
C13_CancelInterrupts ==
    /\ [](\A t \in Callers :
            xIntr[t] =>
                /\ tPc[t] = "done" /\ tRet[t] = "error"
                /\ CancelPositions(tEvents[t]) = {Len(tEvents[t])})
    /\ [][\A t \in Callers :
            /\ (tPc[t] = "streaming" /\ tPc'[t] = "done" /\ tRet'[t] = "error") =>
                  /\ xIntr'[t]
                  /\ Len(tEvents'[t]) = Len(tEvents[t]) + 1
            /\ tPc[t] = "done" =>
                  \/ tEvents'[t] = tEvents[t]
                  \/ tEvents'[t] = <<>> /\ kOps' = kOps + 1]_vars

\* C13 witness: an execute was cancelled after some output and before any
\* idle status arrived, with a value still waiting in the results channel.
C13_Witness ==
    \E t \in Callers :
        /\ xIntr[t]
        /\ ~xDone[t]
        /\ Positions(tEvents[t], {"stdout"}) # {}
        /\ xChan[t] # <<>>

\* C14: once the handler has flushed the SSE headers (which it does before
\* it calls Execute), it writes no JSON error body on the response.
C14_NoBodyAfterHeaders ==
    /\ "handler" \notin hWriting
    /\ \A i \in 1 .. Len(hFrames) : hFrames[i] # "error body"

\* C15: an execute that has returned an error has invoked no callback, and
\* one that has invoked on_init has returned nil.
C15_ErrorOnlyBeforeInit ==
    \A t \in Callers :
        (tOp[t] = "execute" /\ tPc[t] = "done") =>
            /\ tRet[t] # "nil" => tEvents[t] = <<>>
            /\ Positions(tEvents[t], {"init"}) # {} => tRet[t] = "nil"

\* C16: a status or output read made after the background execute has
\* returned (init and execution_complete delivered) finds the session.
C16_RegisteredOnReturn ==
    (pLast.op \in {"status", "seek"} /\ pLast.returned) =>
        pLast.err # "command not found"

\* C17: get_context(id) on a registered id returns that context, and on an
\* id that is not registered (never created, or deleted) it returns a
\* ContextNotFound error rather than a context or a crash.
C17_GetContext ==
    qLast.op = "get" =>
        IF qLast.found
        THEN /\ qLast.err = "nil"
             /\ Len(qLast.contexts) = 1
             /\ qLast.contexts[1].id = qLast.session
        ELSE /\ qLast.err = "ContextNotFound"
             /\ qLast.contexts = <<>>

\* C18: list_contexts(L), when L has a default and the kernel map holds
\* N+1 kernels of L (the N explicit ones and the default), returns N+1
\* entries, all of language L, no session id twice.
C18_ListCount ==
    (qLast.op = "list" /\ qLast.language \in Langs /\ qLast.dflt) =>
        /\ qLast.err = "nil"
        /\ Len(qLast.contexts) = qLast.kernels
        /\ \A i \in 1 .. Len(qLast.contexts) :
              /\ qLast.contexts[i].language = qLast.language
              /\ \A j \in 1 .. Len(qLast.contexts) :
                    qLast.contexts[i].id = qLast.contexts[j].id => i = j

\* C19: list_contexts and delete_language_contexts called with command,
\* background-command or sql end with an unsupported-language error.
C19_NoKernelLangsRejected ==
    /\ (qLast.op = "list" /\ qLast.language \in NoKernelLangs) =>
          qLast.err = "unsupported language context operation"
    /\ \A t \in Callers :
          (tOp[t] = "delete language" /\ tLang[t] \in NoKernelLangs
             /\ tPc[t] = "done") =>
              tRet[t] = "unsupported language context operation"

\* The kernel map and the language defaults.
Registry == <<jupyterClientMap, defaultLanguageJupyterSessions>>

\* map without the entry of id, every other entry as it was.
MapWithout(after, before, id) ==
    /\ DOMAIN after = DOMAIN before \ {id}
    /\ \A s \in DOMAIN after : after[s] = before[s]

\* defaults without the entries that point to id, every other one as it was.
DefaultsWithout(after, before, id) ==
    /\ DOMAIN after = {l \in DOMAIN before : before[l] # id}
    /\ \A l \in DOMAIN after : after[l] = before[l]

\* C20: delete_context(id) on an id that is not in the kernel map returns
\* ContextNotFound and leaves the registry alone; it goes on to the remote
\* delete only for a registered id; a failed remote delete returns an error
\* and leaves the registry alone; after a successful one the cleanup removes
\* id from the kernel map and the defaults that point to id, nothing else.
C20_DeleteFrame ==
    [][\A t \in Callers :
          /\ (tPc[t] \in {"idle", "done"} /\ tOp'[t] = "delete"
                 /\ tPc'[t] = "delete remote") =>
                /\ Registry' = Registry
                /\ tSess'[t] \in DOMAIN jupyterClientMap
          /\ (tPc[t] \in {"idle", "done"} /\ tOp'[t] = "delete"
                 /\ tPc'[t] = "done"
                 /\ <<tOp[t], tPc[t], tSess[t], tRet[t]>>
                      # <<tOp'[t], tPc'[t], tSess'[t], tRet'[t]>>) =>
                /\ Registry' = Registry
                /\ tSess'[t] \notin DOMAIN jupyterClientMap
                /\ tRet'[t] = "ContextNotFound"
          /\ (tOp[t] = "delete" /\ tPc[t] = "delete remote"
                 /\ tPc'[t] # "delete remote") =>
                /\ Registry' = Registry
                /\ \/ tPc'[t] = "delete cleanup" /\ tSess[t] \notin kRemote'
                   \/ tPc'[t] = "done" /\ tRet'[t] = "error"
          /\ (tOp[t] = "delete" /\ tPc[t] = "delete cleanup"
                 /\ tPc'[t] # "delete cleanup") =>
                /\ tPc'[t] = "done" /\ tRet'[t] = "nil"
                /\ MapWithout(jupyterClientMap', jupyterClientMap, tSess[t])
                /\ DefaultsWithout(defaultLanguageJupyterSessions',
                                   defaultLanguageJupyterSessions, tSess[t])
      ]_vars

\* A delete_context of the language default has succeeded and another
\* context is still registered.
C20_Witness ==
    \E t, u \in Callers :
        /\ tOp[t] = "delete" /\ tPc[t] = "done" /\ tRet[t] = "nil"
        /\ tOp[u] = "execute" /\ tCtx[u] = 0 /\ tSess[u] = tSess[t]
        /\ tSess[t] \notin DOMAIN jupyterClientMap
        /\ DOMAIN jupyterClientMap # {}
        /\ DOMAIN defaultLanguageJupyterSessions = {}

\* The caller's own state, to tell its steps from those of the others.
CallOf(t) == <<tOp[t], tPc[t], tLang[t], tSess[t], tTodo[t], tSeen[t], tRet[t]>>

\* The sessions of language l: its kernels and its default.
SessionsOf(l) ==
    {s \in DOMAIN jupyterClientMap : jupyterClientMap[s].language = l}
      \cup {defaultLanguageJupyterSessions[k] :
               k \in DOMAIN defaultLanguageJupyterSessions \cap {l}}

\* C21: delete_language_contexts(L) takes every session of L, the default
\* included, each one once; each is deleted remotely once and then removed
\* from the registry with nothing else; a session it removes is of language
\* L; when it returns without error all of them are gone.
C21_DeleteLanguage ==
    /\ [](\A t \in Callers :
            (tOp[t] = "delete language" /\ tPc[t] = "done" /\ tRet[t] = "nil") =>
               /\ tTodo[t] = {}
               /\ \A s \in tSeen[t] :
                     /\ s \notin DOMAIN jupyterClientMap
                     /\ s \notin kRemote
                     /\ \A l \in DOMAIN defaultLanguageJupyterSessions :
                           defaultLanguageJupyterSessions[l] # s)
    /\ [][\A t \in Callers :
            /\ (tPc[t] \in {"idle", "done"} /\ tOp'[t] = "delete language"
                   /\ CallOf(t)' # CallOf(t)) =>
                  /\ tTodo'[t] = SessionsOf(tLang'[t])
                  /\ tSeen'[t] = {}
                  /\ Registry' = Registry /\ kRemote' = kRemote
            /\ (tPc[t] = "delete loop" /\ tPc'[t] # "delete loop") =>
                  /\ tSess'[t] \in tTodo[t] \ tSeen[t]
                  /\ tTodo'[t] = tTodo[t] \ {tSess'[t]}
                  /\ tSeen'[t] = tSeen[t] \cup {tSess'[t]}
                  /\ Registry' = Registry /\ kRemote' = kRemote
            /\ (tOp[t] = "delete language" /\ tPc[t] = "delete remote"
                   /\ tPc'[t] # "delete remote") =>
                  /\ Registry' = Registry
                  /\ \/ /\ tPc'[t] = "delete cleanup"
                        /\ tSess[t] \in kRemote
                        /\ kRemote' = kRemote \ {tSess[t]}
                     \/ /\ tPc'[t] = "done" /\ tRet'[t] = "error"
                        /\ kRemote' = kRemote
            /\ (tOp[t] = "delete language" /\ tPc[t] = "delete cleanup"
                   /\ tPc'[t] # "delete cleanup") =>
                  /\ MapWithout(jupyterClientMap', jupyterClientMap, tSess[t])
                  /\ DefaultsWithout(defaultLanguageJupyterSessions',
                                     defaultLanguageJupyterSessions, tSess[t])
                  /\ tSess[t] \in DOMAIN jupyterClientMap =>
                        jupyterClientMap[tSess[t]].language = tLang[t]
                  /\ kRemote' = kRemote
      ]_vars

\* delete_language_contexts has returned without error after deleting the
\* default of its language, and a context of another language is registered.
C21_Witness ==
    \E t, u \in Callers :
        /\ tOp[t] = "delete language" /\ tPc[t] = "done" /\ tRet[t] = "nil"
        /\ tOp[u] = "execute" /\ tCtx[u] = 0 /\ tSess[u] \in tSeen[t]
        /\ DOMAIN jupyterClientMap # {}
        /\ \A s \in DOMAIN jupyterClientMap :
              jupyterClientMap[s].language # tLang[t]

\* The processes of the command's process group: the child and a descendant.
SignalGroup(e) == {"leader", "kid"}

\* C22: an interrupt fails with "no such session" exactly when the id is in
\* neither map, and after an interrupt has signalled a running command and
\* returned success no process of the command's group is still running.
C22_InterruptGroup ==
    \A e \in CmdIds :
        iPc[e] = "returned" =>
            /\ iRet[e] = "no such session" <=> iSaw[e] = "none"
            /\ (iRet[e] = "nil" /\ iHit[e] = "running") =>
                  /\ "leader" \in SignalGroup(e) => cProc[e] # "running"
                  /\ "kid" \in SignalGroup(e) => cKid[e] # "running"

\* C23: an interrupt of a command session that is registered as finished
\* returns success, and an interrupt of an unregistered id returns an error.
C23_InterruptFinished ==
    \A e \in CmdIds :
        iPc[e] = "returned" =>
            /\ iSaw[e] = "finished" => iRet[e] = "nil"
            /\ iSaw[e] = "none" => iRet[e] # "nil"

\* What the stream and the registry show of an interrupted foreground
\* command: one error event, of ename CommandExecError, no completion, and
\* the context no longer running.
InterruptedExecute(e) ==
    cPc[e] = "returned" =>
        /\ Cardinality(Positions(cEvents[e], {"error"})) = 1
        /\ \A i \in Positions(cEvents[e], {"error"}) :
              cEvents[e][i].arg[1] = "CommandExecError"
        /\ Positions(cEvents[e], {"complete"}) = {}
        /\ ~CommandStatusOf(commandClientMap, e).running

InterruptedOutcome(e) ==
    /\ iPc[e] = "returned" => iRet[e] = "nil"
    /\ InterruptedExecute(e)

C25_ExitCode ==
    \A e \in CmdIds :
        (cMode[e] = "fg" /\ cPc[e] = "returned" /\ cRet[e] = "nil"
           /\ cExit[e] \in {Some(0), Some(3)}) =>
            LET k == cExit[e][1]
                ev == cEvents[e]
                st == CommandStatusOf(commandClientMap, e)
            IN  /\ st.found /\ ~st.running /\ st.exitCode = Some(k)
                /\ IF k # 0
                   THEN /\ Positions(ev, {"error"}) = {Len(ev)}
                        /\ ev[Len(ev)].arg = <<"CommandExecError", Itoa(k)>>
                        /\ Positions(ev, {"complete"}) = {}
                   ELSE /\ Positions(ev, {"complete"}) = {Len(ev)}
                        /\ Positions(ev, {"error"}) = {}

\* C26: a kernel execute that returned without error, with one result and
\* no stream output and no error, has written exactly the frames init,
\* status (busy), execution_count, result, status (idle),
\* execution_complete, in that order.
C26_ResultSequence ==
    \A t \in Callers :
        (tOp[t] = "execute" /\ tPc[t] = "done" /\ tRet[t] = "nil"
           /\ Cardinality(Positions(tEvents[t], {"result"})) = 1
           /\ Positions(tEvents[t], {"stdout", "stderr", "error"}) = {}) =>
            FramesOf(tEvents[t]) =
                <<"init", "status", "execution_count", "result", "status",
                  "execution_complete">>

\* the access goroutine g is in the middle of is covered by c.mu
Guarded(g) ==
    IF lAcc[g][1][1] = "write" THEN cMu.w = g ELSE cMu.w = g \/ g \in cMu.r

\* goroutines g and h are in the middle of accesses of one map, one of
\* them a write
MapRace(g, h) ==
    /\ g # h
    /\ lAcc[g] # None /\ lAcc[h] # None
    /\ lAcc[g][1][2] = lAcc[h][1][2]
    /\ "write" \in {lAcc[g][1][1], lAcc[h][1][1]}

\* C27: every read and write of the kernel map, the command map and the
\* language-default map happens with c.mu held (the write lock for a
\* write, at least the read lock for a read), so that no map read or write
\* overlaps a write of the same map.
C27_LockedAccess ==
    /\ \A g \in 1..MaxLockers : lAcc[g] # None => Guarded(g)
    /\ \A g, h \in 1..MaxLockers : ~MapRace(g, h)

\* the execution-time results of caller t's execute: those still in the
\* channel and those already handed to on_execute_complete
TimeResults(t) ==
    Cardinality({i \in 1..Len(xChan[t]) : xChan[t][i].time})
    + Cardinality({i \in 1..Len(tEvents[t]) : tEvents[t][i].type = "complete"})

\* how far the goroutine started by status idle has come
IdleRank(pc) ==
    CASE pc = "none" -> 0 [] pc = "send" -> 1 [] pc = "wait" -> 2
      [] pc = "done" -> 3

\* C28: for each kernel execute the termination step started by status idle
\* runs at most once: the execution-time result is sent once, the channel is
\* closed once, and it is closed only after status idle was received and an
\* execution count or an error was recorded, whatever the order and number
\* of the idle and execute_reply messages.
C28_TerminationOnce ==
    /\ [](\A t \in Callers :
            /\ TimeResults(t) <= 1
            /\ xIdle[t] \in {"wait", "done"} => TimeResults(t) = 1
            /\ xClosed[t] <=> xIdle[t] = "done"
            /\ xClosed[t] => xDone[t] /\ (xCount[t] \/ xErr[t]))
    /\ [][\A t \in Callers :
            xDone[t] /\ xDone'[t] =>
                /\ IdleRank(xIdle'[t]) >= IdleRank(xIdle[t])
                /\ IdleRank(xIdle'[t]) <= IdleRank(xIdle[t]) + 1]_vars

\* an execute whose kernel sent status idle and execute_reply returned nil
\* after the close, with init and the one execution-time result delivered
C28_Witness ==
    \E t \in Callers :
        /\ tOp[t] = "execute" /\ tPc[t] = "done" /\ tRet[t] = "nil"
        /\ xClosed[t] /\ xCount[t] /\ ~xErr[t]
        /\ TimeResults(t) = 1
        /\ Len(tEvents[t]) = 2

\* C29: no message handler sends on an execute's result channel after the
\* channel was closed; a stream, error or execute_result message that comes
\* after the close and before the disconnect causes no such send.
C29_NoSendOnClosed ==
    ~xPanic

\* C30: an execute whose kernel has reported status idle returns in the end
\* and releases the kernel's busy lock, with no timeout set and whether or
\* not an execute_reply with a positive execution count ever arrives.
C30_IdleReturns ==
    \A t \in Callers :
        (tPc[t] = "streaming" /\ xDone[t])
            ~> (tPc[t] = "done" /\ \A k \in SessIds : kMu[k] # t)

\* caller t is inside runJupyterCode on session k, between TryLock and return
Executing(t, k) ==
    tOp[t] = "execute" /\ tPc[t] \in {"connect", "streaming"} /\ tSess[t] = k

\* C31: a kernel context has a WebSocket connection only while the execute
\* that holds its busy lock is running, and that execute opened it; every
\* return of an execute (completion, connect or send failure, cancellation)
\* leaves the connection closed and the lock released; an execute is
\* rejected as busy only while another execute on the context is running.
C31_ConnectionAndLock ==
    /\ [](\A k \in SessIds :
            /\ kMu[k] # 0 => Executing(kMu[k], k)
            /\ kConn[k] => kMu[k] # 0 /\ tPc[kMu[k]] = "streaming")
    /\ [][\A k \in SessIds :
            /\ ~kConn[k] /\ kConn'[k] => kMu[k] # 0 /\ kMu'[k] = kMu[k]
            /\ \A t \in Callers :
                 /\ Executing(t, k) /\ tPc'[t] = "done" =>
                        ~kConn'[k] /\ kMu'[k] = 0
                 /\ tPc[t] = "target" /\ tRet'[t] = "session is busy"
                    /\ tSess'[t] = k =>
                        \E u \in Callers \ {t} : Executing(u, k)]_vars

\* two executes on one context have both returned, one by cancellation and
\* one after the close, and the context is left unlocked and disconnected
C31_Witness ==
    \E t, u \in Callers :
        /\ t # u /\ tSess[t] # 0 /\ tSess[t] = tSess[u]
        /\ tOp[t] = "execute" /\ tPc[t] = "done" /\ xIntr[t]
        /\ tOp[u] = "execute" /\ tPc[u] = "done" /\ tRet[u] = "nil"
        /\ kMu[tSess[t]] = 0 /\ ~kConn[tSess[t]]

\* C32: once the request context of the connection is done no frame is
\* written to it: a hook write or ping write that has not begun its Write
\* is skipped, i.e. it neither queues for the writer lock nor begins a Write.
C32_NoFrameAfterDone ==
    [][hReqDone =>
        \A w \in Writers :
            /\ ~(hW[w].pc = "idle" /\ hW'[w].pc = "lock")
            /\ ~(hW[w].pc = "lock" /\ hW'[w].pc = "write")]_vars

\* where the segments of f start: a byte that is no terminator, at the start
\* of f or right after a terminator
SegmentStarts(f) ==
    {i \in 1 .. Len(f) :
        ~IsTerminator(f[i]) /\ (i = 1 \/ IsTerminator(f[i - 1]))}

\* the segment of f that starts at i, up to the next terminator or the end
SegmentAt(f, i) ==
    SubSeq(f, i, CHOOSE e \in i .. Len(f) :
                    /\ \A k \in i .. e : ~IsTerminator(f[k])
                    /\ e = Len(f) \/ IsTerminator(f[e + 1]))

\* the segments of f, whole and in file order
Segments(f) ==
    [j \in 1 .. Cardinality(SegmentStarts(f)) |->
        SegmentAt(f, CHOOSE i \in SegmentStarts(f) :
                        Cardinality({k \in SegmentStarts(f) : k <= i}) = j)]

\* C33: a periodic read does not emit a trailing segment that has no
\* terminator yet and returns the offset at which that segment starts; what
\* has been emitted is, whole and once each, the segments before the offset,
\* and the final read emits the trailing segment whole.
C33_PartialHeldBack ==
    /\ ~tExited =>
        /\ tLastPos \in 0 .. Len(tFile)
        /\ tLastPos = 0 \/ IsTerminator(tFile[tLastPos])
        /\ tEmitted = Segments(SubSeq(tFile, 1, tLastPos))
        /\ LET r == ReadFromPos(FALSE, tFile, tLastPos, FALSE)
               f == ReadFromPos(FALSE, tFile, tLastPos, TRUE)
           IN  /\ r.pos \in tLastPos .. Len(tFile)
               /\ \A k \in r.pos + 1 .. Len(tFile) : ~IsTerminator(tFile[k])
               /\ r.pos = 0 \/ IsTerminator(tFile[r.pos])
               /\ tEmitted \o r.out = Segments(SubSeq(tFile, 1, r.pos))
               /\ tEmitted \o f.out = Segments(tFile)
    /\ tExited =>
        \E n \in 0 .. Len(tFile) : tEmitted = Segments(SubSeq(tFile, 1, n))

\* a periodic read has emitted a terminated line and moved the offset behind
\* it; the file now ends in a segment without terminator, which a periodic
\* read holds back
C33_Witness ==
    /\ ~tExited
    /\ tLastPos > 0 /\ tLastPos < Len(tFile)
    /\ Len(tEmitted) >= 1
    /\ ~IsTerminator(tFile[Len(tFile)])
    /\ ReadFromPos(FALSE, tFile, tLastPos, FALSE) =
          [out |-> <<>>, pos |-> tLastPos]

StartFailed(e) ==
    /\ cMode[e] = "fg" /\ cPc[e] = "returned" /\ cProc[e] = "none"
    /\ \E s \in Streams : cTail[e][s].alive

\* C36: when the child of a foreground command fails to start, runCommand
\* emits on_init and then one on_error of ename CommandExecError, no stdout,
\* stderr or on_complete event, and returns nil.
C36_StartFailure ==
    \A e \in CmdIds :
        StartFailed(e) =>
            /\ cRet[e] = "nil"
            /\ Len(cEvents[e]) = 2
            /\ cEvents[e][1].type = "init"
            /\ cEvents[e][2].type = "error"
            /\ cEvents[e][2].arg[1] = "CommandExecError"

\* one command failed to start while the other has run and produced output
C36_Witness ==
    \E e, f \in CmdIds :
        /\ StartFailed(e)
        /\ cMode[f] = "fg" /\ cPc[f] = "returned" /\ cProc[f] = "exited"
        /\ Positions(cEvents[f], {"stdout"}) # {}

\* C37: when runCommand has returned, on whatever path, neither of the two
\* tailer goroutines it started is still running.
C37_TailersStopped ==
    \A e \in CmdIds :
        (cMode[e] = "fg" /\ cPc[e] = "returned") =>
            \A s \in Streams : ~cTail[e][s].alive

\* C34: while a foreground command is running its signals channel stays
\* subscribed, whatever other commands start or return, and every signal
\* the daemon has received since, other than SIGCHLD and SIGURG, has been
\* sent on to the command's process group or waits in the channel.
C34_SignalsRelayed ==
    \A e \in CmdIds :
        sPc[e] = "running" =>
            /\ e \in sNotify
            /\ LET out == sFwd[e] \o Forwarded(sChan[e])
               IN  /\ Len(sSeen[e]) <= Len(out)
                   /\ sSeen[e] = SubSeq(out, Len(out) - Len(sSeen[e]) + 1,
                                         Len(out))

\* C38: once an execute has returned because of its cancellation or
\* timeout, the receiveMessages goroutine of its connection is not blocked
\* in a send on the results channel, which nothing receives from any more.
C38_ReaderNotStuck ==
    \A t \in Callers :
        (tOp[t] = "execute" /\ tPc[t] = "done" /\ xIntr[t]) =>
            ~(rPc[t] \in BlockedPcs /\ ~xClosed[t]
              /\ Len(xChan[t]) = ResultChanCap)

\* C39: when no create is in progress, whatever attempts failed before it
\* succeeded or gave up, every session that exists on the Jupyter server
\* is a key of the kernel map.
C39_NoOrphanSession ==
    (\A t \in Callers : tPc[t] \in {"idle", "done"}) =>
        \A s \in kRemote : HasJupyterKernel(jupyterClientMap, s)

\* The places in the server's list of the kernelspecs a lookup may return.
Matches(language) ==
    {i \in 1 .. Len(ksSpecs) :
        ksSpecs[i].name # "python3" /\ ksSpecs[i].language = language}

\* C40: every lookup returns the first listed kernelspec, other than
\* python3, whose language is the target, and the no-kernel-spec error
\* when there is none; two lookups of one language on the same kernelspecs
\* return the same.
C40_SearchKernel ==
    \A i \in 1 .. Len(ksCalls) :
        LET call == ksCalls[i]
            matches == Matches(call.language)
        IN  /\ call.found.name # "python3"
            /\ matches = {} =>
                 call.found = [name |-> "", err |-> "no kernel specs found"]
            /\ matches # {} =>
                 LET first == CHOOSE m \in matches : \A k \in matches : m <= k
                 IN  call.found = [name |-> ksSpecs[first].name, err |-> "nil"]
            /\ \A j \in 1 .. Len(ksCalls) :
                 ksCalls[j].language = call.language =>
                     ksCalls[j].found = call.found

====
